---- MODULE Spec2Model ----
(***************************************************************************)
(* The code generation context of winch (winch/codegen/src/codegen/        *)
(* context.rs): the register allocator, the value stack, the frame and the *)
(* macro assembler's stack pointer, driven by the operations of            *)
(* CodeGenContext.                                                         *)
(*                                                                         *)
(* Every operation of the context is an operator from a context record to  *)
(* a context record; a panic is recorded in the field err and every later  *)
(* step of the same call is skipped.  The actions of the specification     *)
(* apply these operators to the current context.                           *)
(*                                                                         *)
(* The signature registry of wasmtime (crates/wasmtime/src/signatures.rs)  *)
(* is modelled beside it in variables of its own: the operations of        *)
(* SignatureRegistryInner are operators from a registry record to a        *)
(* registry record, applied by threads that hold the write lock.           *)
(***************************************************************************)
EXTENDS Integers, Sequences, FiniteSets, TLC

VARIABLES
    ctx,      \* the CodeGenContext together with the MacroAssembler it drives
    held,     \* registers owned by the caller (returned to it, not yet pushed or freed)
    registry, \* the SignatureRegistryInner behind the RwLock of a SignatureRegistry
    lock,     \* the thread that holds the write lock of the registry, if any
    handles   \* the shared signature indices registered and not yet unregistered

vars == <<ctx, held, registry, lock, handles>>
\* the variables of the signature registry (wasmtime/src/signatures.rs)
sigvars == <<registry, lock, handles>>

(***************************************************************************)
(* Bounds of the model.                                                    *)
(***************************************************************************)
NumIntRegs == 2
NumFloatRegs == 1
NumLocals == 1
MaxStack == 3
MaxWords == 3
ValueModulus == 2
NumThreads == 2
NumFuncTypes == 3
MaxRegistrations == 3

(***************************************************************************)
(* Registers, types and sizes.                                             *)
(***************************************************************************)
IntRegs == 1..NumIntRegs
FloatRegs == (NumIntRegs + 1)..(NumIntRegs + NumFloatRegs)
Regs == IntRegs \cup FloatRegs

\* <M::ABI as ABI>::scratch_reg() / scratch_for(ty): never handed out by the allocator.
ScratchInt == 0 - 1
ScratchFloat == 0 - 2
AllRegs == Regs \cup {ScratchInt, ScratchFloat}

Types == {"I32", "I64", "F32", "F64"}
IntTypes == {"I32", "I64"}
FloatTypes == {"F32", "F64"}
Classes == {"Int", "Float"}

RegsOf(class) == IF class = "Int" THEN IntRegs ELSE FloatRegs
ClassOfReg(r) == IF r \in IntRegs THEN "Int" ELSE "Float"
ClassOfType(ty) == IF ty \in IntTypes THEN "Int" ELSE "Float"

\* OperandSize::bytes of the OperandSize a WasmType converts into.
Bytes(ty) == IF ty \in {"I32", "F32"} THEN 4 ELSE 8
SizeBytes(size) == IF size = "S32" THEN 4 ELSE 8
Sizes == {"S32", "S64"}

\* The width of the values of a size, scaled down: 32-bit arithmetic is modulo
\* ValueModulus, 64-bit arithmetic modulo twice that.
Modulus(bytes) == IF bytes = 4 THEN ValueModulus ELSE 2 * ValueModulus

\* the stack pointer offsets the model follows
MaxSP == 4 * MaxWords

(***************************************************************************)
(* Values of the value stack (stack::Val) and typed registers.             *)
(***************************************************************************)
NoReg == 0

TypedReg(ty, r) == [ty |-> ty, reg |-> r]
NoTypedReg == [ty |-> "none", reg |-> NoReg]

VReg(ty, r) ==
    [k |-> "reg", ty |-> ty, reg |-> r, imm |-> 0, index |-> 0, offset |-> 0, size |-> 0]
VImm(ty, c) ==
    [k |-> "imm", ty |-> ty, reg |-> NoReg, imm |-> c, index |-> 0, offset |-> 0, size |-> 0]
VLocal(i, ty) ==
    [k |-> "local", ty |-> ty, reg |-> NoReg, imm |-> 0, index |-> i, offset |-> 0, size |-> 0]
VMem(ty, off, sz) ==
    [k |-> "mem", ty |-> ty, reg |-> NoReg, imm |-> 0, index |-> 0, offset |-> off, size |-> sz]

Front(q) == SubSeq(q, 1, Len(q) - 1)
Top(q) == q[Len(q)]
MinOf(S) == CHOOSE x \in S : \A y \in S : x <= y

Panic(s, msg) == [s EXCEPT !.err = msg]

\* debug_assert!, and the arithmetic overflow checks of a debug build: a debug
\* build panics when the condition is false, a release build goes on.  The
\* operations are followed as the release build runs them, and the field
\* debug_failed records that the debug build has panicked on the way.
debug_assert(s, cond) == IF cond THEN s ELSE [s EXCEPT !.debug_failed = TRUE]

(***************************************************************************)
(* The frame: local index -> slot.                                         *)
(***************************************************************************)
LocalType(i) == IF i % 2 = 0 THEN "I32" ELSE "F64"
\* Frame::get_local(index).is_some()
HasLocal(i) == i \in 0..(NumLocals - 1)

(***************************************************************************)
(* The macro assembler: its stack pointer offset, the registers' contents  *)
(* and the machine stack's contents.                                       *)
(***************************************************************************)
\* The machine stack's contents: offset -> value, for the live offsets (those
\* not above the stack pointer).  Memory reads 0 until it is written, so only
\* the offsets holding another value are recorded.
ReadStack(s, off) == IF off \in DOMAIN s.pm THEN s.pm[off] ELSE 0
WriteStack(pm, off, v) ==
    [o \in IF v = 0 THEN (DOMAIN pm) \ {off} ELSE (DOMAIN pm) \cup {off} |->
         IF o = off THEN v ELSE pm[o]]
LiveStack(pm, sp) == [o \in {x \in DOMAIN pm : x <= sp} |-> pm[o]]

\* masm.push(reg, size) -> StackSlot: the slot is at s.sp after the push.
masm_push(s, r, ty) ==
    LET off == s.sp + Bytes(ty)
    IN [s EXCEPT !.sp = off,
                 !.pm = WriteStack(s.pm, off, s.rv[r] % Modulus(Bytes(ty)))]

\* masm.pop(reg, size)
masm_pop(s, r, ty) ==
    IF s.sp < Bytes(ty) THEN Panic(s, "sp underflow")
    ELSE [s EXCEPT !.rv[r] = ReadStack(s, s.sp),
                   !.sp = s.sp - Bytes(ty),
                   !.pm = LiveStack(s.pm, s.sp - Bytes(ty))]

\* masm.mov(RegImm::imm(c) | RegImm::reg(src), dst, size)
masm_mov_imm(s, c, dst, bytes) == [s EXCEPT !.rv[dst] = c % Modulus(bytes)]
masm_mov_reg(s, src, dst, bytes) == [s EXCEPT !.rv[dst] = s.rv[src] % Modulus(bytes)]

\* masm.load(masm.local_address(slot), dst, size)
masm_load_local(s, i, dst, bytes) == [s EXCEPT !.rv[dst] = s.locals_mem[i] % Modulus(bytes)]

\* masm.load(masm.address_from_sp(offset), dst, size)
masm_load_sp(s, off, dst, bytes) == [s EXCEPT !.rv[dst] = ReadStack(s, off) % Modulus(bytes)]

\* masm.store(src, addr, size)
masm_store(s, v, bytes) == [s EXCEPT !.addr_mem = v % Modulus(bytes)]

\* masm.reserve_stack(bytes)
masm_reserve_stack(s, bytes) == [s EXCEPT !.sp = s.sp + bytes]

\* masm.ensure_sp_for_jump(target): frees stack down to the target, never allocates.
masm_ensure_sp_for_jump(s, target) ==
    IF s.sp > target
    THEN [s EXCEPT !.sp = target, !.pm = LiveStack(s.pm, target)]
    ELSE s

(***************************************************************************)
(* The register allocator's bookkeeping.                                   *)
(***************************************************************************)
\* RegAlloc::free
regalloc_free(s, r) ==
    IF r \in Regs THEN [s EXCEPT !.free = s.free \cup {r}] ELSE s

\* RegAlloc::reg_available
reg_available(s, r) == r \in s.free

\* take a register known to be free
regalloc_take(s, r) == [s EXCEPT !.free = s.free \ {r}, !.ret = TypedReg("none", r)]

(***************************************************************************)
(* CodeGenContext::free_reg                                                *)
(***************************************************************************)
free_reg(s, r) == IF s.err # "ok" THEN s ELSE regalloc_free(s, r)

(***************************************************************************)
(* CodeGenContext::spill_impl: every entry, bottom to top.                 *)
(***************************************************************************)
\* a spill that records the stack pointer offset before the push in the entry
spill_entry_stale_offset(s, i) ==
    LET v == s.stack[i]
        scratch == IF ClassOfType(v.ty) = "Int" THEN ScratchInt ELSE ScratchFloat
        reg_to_mem(s1) ==
            [regalloc_free(s1, v.reg) EXCEPT !.stack[i] = VMem(v.ty, s.sp, Bytes(v.ty)),
                                             !.nspill = s.nspill + 1]
        local_to_mem(s2, ty) ==
            [s2 EXCEPT !.stack[i] = VMem(ty, s.sp, Bytes(ty)), !.nspill = s.nspill + 1]
    IN IF v.k = "reg" THEN reg_to_mem(masm_push(s, v.reg, v.ty))
       ELSE IF v.k = "local"
       THEN IF ~HasLocal(v.index) THEN Panic(s, "valid local at slot")
            ELSE local_to_mem(
                     masm_push(masm_load_local(s, v.index, scratch, Bytes(LocalType(v.index))),
                               scratch, LocalType(v.index)),
                     LocalType(v.index))
       ELSE s

\* a spill that leaves the register of a spilled register entry allocated
spill_entry_keeps_reg(s, i) ==
    LET v == s.stack[i]
        scratch == IF ClassOfType(v.ty) = "Int" THEN ScratchInt ELSE ScratchFloat
        reg_to_mem(s1) ==
            [s1 EXCEPT !.stack[i] = VMem(v.ty, s1.sp, Bytes(v.ty)), !.nspill = s.nspill + 1]
        local_to_mem(s2, ty) ==
            [s2 EXCEPT !.stack[i] = VMem(ty, s2.sp, Bytes(ty)), !.nspill = s.nspill + 1]
    IN IF v.k = "reg" THEN reg_to_mem(masm_push(s, v.reg, v.ty))
       ELSE IF v.k = "local"
       THEN IF ~HasLocal(v.index) THEN Panic(s, "valid local at slot")
            ELSE local_to_mem(
                     masm_push(masm_load_local(s, v.index, scratch, Bytes(LocalType(v.index))),
                               scratch, LocalType(v.index)),
                     LocalType(v.index))
       ELSE s

\* a spill of an entry that leaves a local where it is
spill_entry_skips_locals(s, i) ==
    LET v == s.stack[i]
        reg_to_mem(s1) ==
            [regalloc_free(s1, v.reg) EXCEPT !.stack[i] = VMem(v.ty, s1.sp, Bytes(v.ty)),
                                             !.nspill = s.nspill + 1]
    IN IF v.k = "reg" THEN reg_to_mem(masm_push(s, v.reg, v.ty))
       ELSE s

spill_entry(s, i) ==
    LET v == s.stack[i]
        \* <M::ABI as ABI>::scratch_for(&slot.ty)
        scratch == IF ClassOfType(LocalType(v.index)) = "Int" THEN ScratchInt ELSE ScratchFloat
        \* Val::Reg(r): s1 is the context after masm.push(r.reg, r.ty.into())
        reg_to_mem(s1) ==
            [regalloc_free(s1, v.reg) EXCEPT !.stack[i] = VMem(v.ty, s1.sp, Bytes(v.ty)),
                                             !.nspill = s.nspill + 1]
        \* Val::Local(local): s2 is the context after the load and masm.push(scratch, ..)
        local_to_mem(s2, ty) ==
            [s2 EXCEPT !.stack[i] = VMem(ty, s2.sp, Bytes(ty)), !.nspill = s.nspill + 1]
    IN IF v.k = "reg" THEN reg_to_mem(masm_push(s, v.reg, v.ty))
       ELSE IF v.k = "local"
       THEN IF ~HasLocal(v.index) THEN Panic(s, "valid local at slot")
            ELSE local_to_mem(
                     masm_push(masm_load_local(s, v.index, scratch, Bytes(LocalType(v.index))),
                               scratch, LocalType(v.index)),
                     LocalType(v.index))
       ELSE s

\* a spill that stops at the first entry it has moved to memory
RECURSIVE spill_first_only(_, _)
spill_first_only(s, i) ==
    IF s.err # "ok" \/ i > Len(s.stack) \/ s.nspill > 0 THEN s
    ELSE spill_first_only(spill_entry(s, i), i + 1)

\* a spill that also moves the constants to memory, through the scratch register
RECURSIVE spill_with_consts(_, _)
spill_with_consts(s, i) ==
    IF s.err # "ok" \/ i > Len(s.stack) THEN s
    ELSE IF s.stack[i].k = "imm"
    THEN LET v == s.stack[i]
             s1 == masm_push(masm_mov_imm(s, v.imm, ScratchInt, Bytes(v.ty)), ScratchInt, v.ty)
         IN spill_with_consts([s1 EXCEPT !.stack[i] = VMem(v.ty, s1.sp, Bytes(v.ty)),
                                         !.nspill = s.nspill + 1], i + 1)
    ELSE spill_with_consts(spill_entry(s, i), i + 1)

RECURSIVE spill_from(_, _)
spill_from(s, i) ==
    IF s.err # "ok" \/ i > Len(s.stack) THEN s
    ELSE spill_from(spill_entry(s, i), i + 1)

\* a spill that visits the entries from the top of the stack to the bottom
RECURSIVE spill_down(_, _)
spill_down(s, i) ==
    IF s.err # "ok" \/ i < 1 THEN s
    ELSE spill_down(spill_entry(s, i), i - 1)

spill_impl_top_down(s) == spill_down(s, Len(s.stack))

spill_impl(s) == spill_from(s, 1)

\* CodeGenContext::spill
spill(s) == spill_impl(s)

(***************************************************************************)
(* RegAlloc::reg and RegAlloc::reg_for_class with the spill callback the   *)
(* context passes, and the context's wrappers.                             *)
(***************************************************************************)
regalloc_reg(s, named) ==
    LET \* s1 is the context after the spill callback
        retry(s1) ==
            IF s1.err # "ok" THEN s1
            ELSE IF reg_available(s1, named) THEN regalloc_take(s1, named)
            ELSE Panic(s1, "expected register to be available")
    IN IF reg_available(s, named) THEN regalloc_take(s, named)
       ELSE retry(spill_impl(s))

regalloc_reg_for_class(s, class) ==
    LET \* s1 is the context after the spill callback
        retry(s1) ==
            IF s1.err # "ok" THEN s1
            ELSE IF s1.free \cap RegsOf(class) # {}
            THEN regalloc_take(s1, MinOf(s1.free \cap RegsOf(class)))
            ELSE Panic(s1, "expected register for class to be available")
    IN IF s.free \cap RegsOf(class) # {}
       THEN regalloc_take(s, MinOf(s.free \cap RegsOf(class)))
       ELSE retry(spill_impl(s))

\* a reg that hands out the named register without running the spill
reg_without_spill(s, named) ==
    IF s.err # "ok" THEN s ELSE regalloc_take(s, named)

\* CodeGenContext::reg
reg(s, named) == IF s.err # "ok" THEN s ELSE regalloc_reg(s, named)

\* CodeGenContext::reg_for_class
reg_for_class(s, class) == IF s.err # "ok" THEN s ELSE regalloc_reg_for_class(s, class)

\* CodeGenContext::reg_for_type
reg_for_type(s, ty) == reg_for_class(s, ClassOfType(ty))

\* CodeGenContext::any_gpr
any_gpr(s) == reg_for_class(s, "Int")


(***************************************************************************)
(* The value stack (stack::Stack).                                         *)
(***************************************************************************)
stack_push(s, v) == [s EXCEPT !.stack = Append(s.stack, v)]
stack_pop(s) == [s EXCEPT !.stack = Front(s.stack)]
\* Stack::pop_reg / Stack::pop_named_reg succeed: the top is a register
\* (the named one when a register is named).
stack_top_is_reg(s, named) ==
    /\ Len(s.stack) > 0
    /\ Top(s.stack).k = "reg"
    /\ (named = NoReg \/ Top(s.stack).reg = named)
\* Val::is_i32_const / Val::is_i64_const on Stack::peek
stack_top_is_const(s, ty) ==
    /\ Len(s.stack) > 0
    /\ Top(s.stack).k = "imm"
    /\ Top(s.stack).ty = ty

(***************************************************************************)
(* CodeGenContext::move_val_to_reg                                         *)
(***************************************************************************)
\* a move_val_to_reg that reads zero for a local the frame does not have
move_val_to_reg_reads_zero(s, src, dst) ==
    IF s.err # "ok" THEN s
    ELSE IF src.k = "reg" THEN masm_mov_reg(s, src.reg, dst, Bytes(src.ty))
    ELSE IF src.k = "imm" THEN masm_mov_imm(s, src.imm, dst, Bytes(src.ty))
    ELSE IF src.k = "local"
    THEN IF ~HasLocal(src.index) THEN [s EXCEPT !.rv[dst] = 0]
         ELSE masm_load_local(s, src.index, dst, Bytes(LocalType(src.index)))
    ELSE masm_load_sp(s, src.offset, dst, Bytes(src.ty))

move_val_to_reg(s, src, dst) ==
    IF s.err # "ok" THEN s
    ELSE IF src.k = "reg" THEN masm_mov_reg(s, src.reg, dst, Bytes(src.ty))
    ELSE IF src.k = "imm" THEN masm_mov_imm(s, src.imm, dst, Bytes(src.ty))
    ELSE IF src.k = "local"
    THEN IF ~HasLocal(src.index) THEN Panic(s, "invalid local at index")
         ELSE masm_load_local(s, src.index, dst, Bytes(LocalType(src.index)))
    ELSE masm_load_sp(s, src.offset, dst, Bytes(src.ty))

(***************************************************************************)
(* CodeGenContext::pop_to_reg; named = NoReg stands for None.              *)
(***************************************************************************)
\* a pop_to_reg that does not free the register it moved the value from
pop_to_reg_keeps_src(s, named) ==
    LET val == Top(s.stack)
        popped(s3, r) == [masm_pop(s3, r, val.ty) EXCEPT !.ret = TypedReg(val.ty, r)]
        moved(s3, r) == [s3 EXCEPT !.ret = TypedReg(val.ty, r)]
        allocated(s2) ==
            IF s2.err # "ok" THEN s2
            ELSE IF val.k = "mem"
            THEN popped(debug_assert(s2, val.offset = s2.sp), s2.ret.reg)
            ELSE moved(move_val_to_reg(s2, val, s2.ret.reg), s2.ret.reg)
        slow_path(s1) ==
            allocated(IF named # NoReg THEN reg(s1, named) ELSE reg_for_type(s1, val.ty))
    IN IF s.err # "ok" THEN s
       ELSE IF stack_top_is_reg(s, named)
       THEN [stack_pop(s) EXCEPT !.ret = TypedReg(Top(s.stack).ty, Top(s.stack).reg)]
       ELSE IF Len(s.stack) = 0 THEN Panic(s, "a value at stack top")
       ELSE slow_path(stack_pop(s))

\* a pop_to_reg without the fast path: it always allocates and moves
pop_to_reg_always_allocates(s, named) ==
    LET val == Top(s.stack)
        popped(s3, r) == [masm_pop(s3, r, val.ty) EXCEPT !.ret = TypedReg(val.ty, r)]
        moved(s3, r) ==
            [(IF val.k = "reg" THEN free_reg(s3, val.reg) ELSE s3)
                 EXCEPT !.ret = TypedReg(val.ty, r)]
        allocated(s2) ==
            IF s2.err # "ok" THEN s2
            ELSE IF val.k = "mem"
            THEN popped(debug_assert(s2, val.offset = s2.sp), s2.ret.reg)
            ELSE moved(move_val_to_reg(s2, val, s2.ret.reg), s2.ret.reg)
        slow_path(s1) ==
            allocated(IF named # NoReg THEN reg(s1, named) ELSE reg_for_type(s1, val.ty))
    IN IF s.err # "ok" THEN s
       ELSE IF Len(s.stack) = 0 THEN Panic(s, "a value at stack top")
       ELSE slow_path(stack_pop(s))

pop_to_reg(s, named) ==
    LET val == Top(s.stack)
        \* s3 is the context after masm.pop(reg, ..) / move_val_to_reg(&val, reg, masm)
        popped(s3, r) == [masm_pop(s3, r, val.ty) EXCEPT !.ret = TypedReg(val.ty, r)]
        moved(s3, r) ==
            [(IF val.k = "reg" THEN free_reg(s3, val.reg) ELSE s3)
                 EXCEPT !.ret = TypedReg(val.ty, r)]
        \* s2 is the context after self.reg(..) / self.reg_for_type(..)
        allocated(s2) ==
            IF s2.err # "ok" THEN s2
            ELSE IF val.k = "mem"
            THEN popped(debug_assert(s2, val.offset = s2.sp), s2.ret.reg)
            ELSE moved(move_val_to_reg(s2, val, s2.ret.reg), s2.ret.reg)
        \* s1 is the context after self.stack.pop()
        slow_path(s1) ==
            allocated(IF named # NoReg THEN reg(s1, named) ELSE reg_for_type(s1, val.ty))
    IN IF s.err # "ok" THEN s
       ELSE IF stack_top_is_reg(s, named)
       THEN [stack_pop(s) EXCEPT !.ret = TypedReg(Top(s.stack).ty, Top(s.stack).reg)]
       ELSE IF Len(s.stack) = 0 THEN Panic(s, "a value at stack top")
       ELSE slow_path(stack_pop(s))

(***************************************************************************)
(* CodeGenContext::pop_to_addr                                             *)
(***************************************************************************)
\* a pop_to_addr that stores the scratch register without loading the local
pop_to_addr_stale_scratch(s) ==
    LET val == Top(s.stack)
        bytes == Bytes(val.ty)
        store_scratch(s2) ==
            IF s2.err # "ok" THEN s2 ELSE masm_store(s2, s2.rv[ScratchInt], bytes)
        store(s1) ==
            IF val.k = "reg"
            THEN free_reg(masm_store(s1, s1.rv[val.reg], bytes), val.reg)
            ELSE IF val.k = "imm" THEN masm_store(s1, val.imm, bytes)
            ELSE IF val.k = "local"
            THEN IF ~HasLocal(val.index) THEN Panic(s1, "invalid local at index")
                 ELSE store_scratch(s1)
            ELSE store_scratch(masm_pop(s1, ScratchInt, val.ty))
    IN IF s.err # "ok" THEN s
       ELSE IF Len(s.stack) = 0 THEN Panic(s, "a value at stack top")
       ELSE store(stack_pop(s))

pop_to_addr(s) ==
    LET val == Top(s.stack)
        bytes == Bytes(val.ty)
        \* s2 is the context after the load into the scratch register
        store_scratch(s2) ==
            IF s2.err # "ok" THEN s2 ELSE masm_store(s2, s2.rv[ScratchInt], bytes)
        \* s1 is the context after self.stack.pop()
        store(s1) ==
            IF val.k = "reg"
            THEN free_reg(masm_store(s1, s1.rv[val.reg], bytes), val.reg)
            ELSE IF val.k = "imm" THEN masm_store(s1, val.imm, bytes)
            ELSE IF val.k = "local"
            THEN IF ~HasLocal(val.index) THEN Panic(s1, "invalid local at index")
                 ELSE store_scratch(masm_load_local(s1, val.index, ScratchInt, bytes))
            ELSE store_scratch(masm_pop(s1, ScratchInt, val.ty))
    IN IF s.err # "ok" THEN s
       ELSE IF Len(s.stack) = 0 THEN Panic(s, "a value at stack top")
       ELSE store(stack_pop(s))

(***************************************************************************)
(* The emit callbacks the instruction visitor passes: each writes its      *)
(* result to the destination register it was given and returns that        *)
(* register with the result's type.                                        *)
(***************************************************************************)
RegOperand(r) == [isreg |-> TRUE, reg |-> r, imm |-> 0]
ImmOperand(c) == [isreg |-> FALSE, reg |-> NoReg, imm |-> c]
OperandValue(s, o) == IF o.isreg THEN s.rv[o.reg] ELSE o.imm

\* a negation
emit_unop(s, dst, bytes, rty) ==
    [s EXCEPT !.rv[dst] = (Modulus(bytes) - (s.rv[dst] % Modulus(bytes))) % Modulus(bytes),
              !.ret = TypedReg(rty, dst)]

\* an addition
emit_binop(s, dst, src, bytes, rty) ==
    [s EXCEPT !.rv[dst] = (s.rv[dst] + OperandValue(s, src)) % Modulus(bytes),
              !.ret = TypedReg(rty, dst)]

\* a comparison (not equal)
emit_cmp(s, dst, src1, src2, bytes) ==
    [s EXCEPT !.rv[dst] = IF s.rv[src1] % Modulus(bytes) = s.rv[src2] % Modulus(bytes)
                          THEN 0 ELSE 1]

\* a conversion; the field calls records the registers the callback was called
\* with and the registers that were free at the call
emit_convert(s, dst, src, bytes) ==
    [s EXCEPT !.rv[dst] = s.rv[src] % Modulus(bytes),
              !.calls = Append(@, [dst |-> dst, src |-> src, free |-> s.free])]

(***************************************************************************)
(* CodeGenContext::unop, binop, float_cmp_op, i32_binop, i64_binop.        *)
(* rty is the type of the TypedReg the emit callback returns.              *)
(***************************************************************************)
unop(s, size, rty) ==
    LET \* s2 is the context after emit(masm, typed_reg.reg, size)
        push_dst(s2) == stack_push(s2, VReg(s2.ret.ty, s2.ret.reg))
        \* s1 is the context after self.pop_to_reg(masm, None)
        emit(s1) ==
            IF s1.err # "ok" THEN s1
            ELSE push_dst(emit_unop(s1, s1.ret.reg, SizeBytes(size), rty))
    IN emit(pop_to_reg(s, NoReg))

\* a binop that frees its destination register instead of its source register
binop_frees_dst(s, size, rty) ==
    LET free_and_push(s3, src) ==
            stack_push(free_reg(s3, src.reg), VReg(s3.ret.ty, s3.ret.reg))
        emit(s2, src) ==
            IF s2.err # "ok" THEN s2
            ELSE free_and_push(
                     emit_binop(s2, s2.ret.reg, RegOperand(src.reg), SizeBytes(size), rty), s2.ret)
        pop_dst(s1) == emit(pop_to_reg(s1, NoReg), s1.ret)
    IN pop_dst(pop_to_reg(s, NoReg))

binop(s, size, rty) ==
    LET \* s3 is the context after emit(masm, dst.reg, src.reg.into(), size)
        free_and_push(s3, src) ==
            stack_push(free_reg(s3, src.reg), VReg(s3.ret.ty, s3.ret.reg))
        \* s2 is the context after the pop of dst
        emit(s2, src) ==
            IF s2.err # "ok" THEN s2
            ELSE free_and_push(
                     emit_binop(s2, s2.ret.reg, RegOperand(src.reg), SizeBytes(size), rty), src)
        \* s1 is the context after the pop of src
        pop_dst(s1) == emit(pop_to_reg(s1, NoReg), s1.ret)
    IN pop_dst(pop_to_reg(s, NoReg))

\* a float_cmp_op that does not free its first source register
float_cmp_op_keeps_src(s, size) ==
    LET free_and_push(s4, src2, dst) ==
            stack_push(free_reg(s4, src2.reg),
                       VReg(IF size = "S32" THEN "I32" ELSE "I64", dst))
        emit(s3, src1, src2) ==
            IF s3.err # "ok" THEN s3
            ELSE free_and_push(emit_cmp(s3, s3.ret.reg, src1.reg, src2.reg, SizeBytes(size)),
                               src2, s3.ret.reg)
        alloc_dst(s2, src1) == emit(any_gpr(s2), src1, s2.ret)
        pop_src2(s1) == alloc_dst(pop_to_reg(s1, NoReg), s1.ret)
    IN pop_src2(pop_to_reg(s, NoReg))

float_cmp_op(s, size) ==
    LET \* s4 is the context after emit(masm, dst, src1.reg, src2.reg, size)
        free_and_push(s4, src1, src2, dst) ==
            stack_push(free_reg(free_reg(s4, src1.reg), src2.reg),
                       VReg(IF size = "S32" THEN "I32" ELSE "I64", dst))
        \* s3 is the context after self.any_gpr(masm)
        emit(s3, src1, src2) ==
            IF s3.err # "ok" THEN s3
            ELSE free_and_push(emit_cmp(s3, s3.ret.reg, src1.reg, src2.reg, SizeBytes(size)),
                               src1, src2, s3.ret.reg)
        \* s2 is the context after the pop of src2
        alloc_dst(s2, src1) == emit(any_gpr(s2), src1, s2.ret)
        \* s1 is the context after the pop of src1
        pop_src2(s1) == alloc_dst(pop_to_reg(s1, NoReg), s1.ret)
    IN pop_src2(pop_to_reg(s, NoReg))

\* an i32_binop that pops a constant into a register like any other operand
i32_binop_materializes_const(s) ==
    IF s.err # "ok" THEN s
    ELSE IF Len(s.stack) = 0 THEN Panic(s, "value at stack top")
    ELSE binop(s, "S32", "I32")

i32_binop(s) ==
    LET val == Top(s.stack).imm
        \* s2 is the context after emit(masm, reg, RegImm::i32(val), OperandSize::S32)
        push_dst(s2) == stack_push(s2, VReg(s2.ret.ty, s2.ret.reg))
        \* s1 is the context after self.pop_to_reg(masm, None)
        emit(s1) ==
            IF s1.err # "ok" THEN s1
            ELSE push_dst(emit_binop(s1, s1.ret.reg, ImmOperand(val), SizeBytes("S32"), "I32"))
    IN IF s.err # "ok" THEN s
       ELSE IF Len(s.stack) = 0 THEN Panic(s, "value at stack top")
       ELSE IF stack_top_is_const(s, "I32") THEN emit(pop_to_reg(stack_pop(s), NoReg))
       ELSE binop(s, "S32", "I32")

\* an i64_binop whose immediate path emits with the 32-bit operand size
i64_binop_as_s32(s) ==
    LET val == Top(s.stack).imm
        push_dst(s2) == stack_push(s2, VReg(s2.ret.ty, s2.ret.reg))
        emit(s1) ==
            IF s1.err # "ok" THEN s1
            ELSE push_dst(emit_binop(s1, s1.ret.reg, ImmOperand(val), SizeBytes("S32"), "I64"))
    IN IF s.err # "ok" THEN s
       ELSE IF Len(s.stack) = 0 THEN Panic(s, "value at stack top")
       ELSE IF stack_top_is_const(s, "I64") THEN emit(pop_to_reg(stack_pop(s), NoReg))
       ELSE binop(s, "S64", "I64")

i64_binop(s) ==
    LET val == Top(s.stack).imm
        \* s2 is the context after emit(masm, reg, RegImm::i64(val), OperandSize::S64)
        push_dst(s2) == stack_push(s2, VReg(s2.ret.ty, s2.ret.reg))
        \* s1 is the context after self.pop_to_reg(masm, None)
        emit(s1) ==
            IF s1.err # "ok" THEN s1
            ELSE push_dst(emit_binop(s1, s1.ret.reg, ImmOperand(val), SizeBytes("S64"), "I64"))
    IN IF s.err # "ok" THEN s
       ELSE IF Len(s.stack) = 0 THEN Panic(s, "value at stack top")
       ELSE IF stack_top_is_const(s, "I64") THEN emit(pop_to_reg(stack_pop(s), NoReg))
       ELSE binop(s, "S64", "I64")

(***************************************************************************)
(* CodeGenContext::convert_op, convert_op_with_tmp_reg                     *)
(***************************************************************************)
convert_op(s, dst_ty) ==
    LET \* s3 is the context after emit(masm, dst, src, dst_size)
        free_and_push(s3, src, dst) == stack_push(free_reg(s3, src.reg), VReg(dst_ty, dst))
        \* s2 is the context after self.reg_for_type(dst_ty, masm)
        emit(s2, src) ==
            IF s2.err # "ok" THEN s2
            ELSE free_and_push(emit_convert(s2, s2.ret.reg, src.reg, Bytes(dst_ty)),
                               src, s2.ret.reg)
        \* s1 is the context after self.pop_to_reg(masm, None)
        alloc_dst(s1) == emit(reg_for_type(s1, dst_ty), s1.ret)
    IN alloc_dst(pop_to_reg(s, NoReg))

\* a convert_op_with_tmp_reg that frees the temporary register before the
\* conversion
convert_op_with_tmp_reg_frees_early(s, dst_ty, tmp_reg_class) ==
    LET convert(s1) == IF s1.err # "ok" THEN s1 ELSE convert_op(free_reg(s1, s1.ret.reg), dst_ty)
    IN convert(reg_for_class(s, tmp_reg_class))

convert_op_with_tmp_reg(s, dst_ty, tmp_reg_class) ==
    LET \* s2 is the context after self.convert_op(..)
        free_tmp(s2, tmp_gpr) == IF s2.err # "ok" THEN s2 ELSE free_reg(s2, tmp_gpr)
        \* s1 is the context after self.reg_for_class(tmp_reg_class, masm)
        convert(s1) == free_tmp(convert_op(s1, dst_ty), s1.ret.reg)
    IN convert(reg_for_class(s, tmp_reg_class))


(***************************************************************************)
(* CodeGenContext::drop_last with the callback truncate_stack_to passes    *)
(* (freeing = TRUE: free the register of a register entry) or a callback   *)
(* that does nothing, and CodeGenContext::truncate_stack_to.  The field     *)
(* calls records the values the callback has been called with, in the      *)
(* order of the calls.                                                     *)
(***************************************************************************)
drop_callback(s, v, freeing) ==
    LET called == [s EXCEPT !.calls = Append(@, v)]
    IN IF freeing /\ v.k = "reg" THEN regalloc_free(called, v.reg) ELSE called

RECURSIVE drop_visit_bottom_up(_, _, _, _)
\* the entries truncate+1, ..., i: bottom to top
drop_visit_bottom_up(s, i, truncate, freeing) ==
    IF i <= truncate THEN s
    ELSE drop_callback(drop_visit_bottom_up(s, i - 1, truncate, freeing),
                       s.stack[i], freeing)

RECURSIVE drop_visit(_, _, _, _)
\* the entries i, i-1, ..., truncate+1: top to bottom
drop_visit(s, i, truncate, freeing) ==
    IF i <= truncate THEN s
    ELSE drop_visit(drop_callback(s, s.stack[i], freeing), i - 1, truncate, freeing)

drop_last(s, n, freeing) ==
    IF s.err # "ok" THEN s
    ELSE IF n > 0
    THEN IF ~(n <= Len(s.stack)) THEN Panic(s, "assertion failed: last <= len")
         ELSE LET truncate == Len(s.stack) - n
                  s1 == drop_visit(s, Len(s.stack), truncate, freeing)
              IN [s1 EXCEPT !.stack = SubSeq(s1.stack, 1, truncate)]
    ELSE s

\* a truncation that frees the registers of the surviving entries too
truncate_stack_to_frees_all(s, target) ==
    IF s.err # "ok" THEN s
    ELSE IF Len(s.stack) > target
    THEN [drop_visit(s, Len(s.stack), 0, TRUE)
             EXCEPT !.stack = SubSeq(s.stack, 1, target)]
    ELSE s

truncate_stack_to(s, target) ==
    IF s.err # "ok" THEN s
    ELSE IF Len(s.stack) > target THEN drop_last(s, Len(s.stack) - target, TRUE)
    ELSE s

(***************************************************************************)
(* CodeGenContext::unconditional_jump to a control frame with the given    *)
(* base and target offsets.  The callback f pops results:                  *)
(*   "none"        pops nothing,                                           *)
(*   "pop_to_reg"  pops the top into a register and frees it,              *)
(*   "pop_to_addr" pops the top into the return area.                      *)
(***************************************************************************)
JumpCallbacks == {"none", "pop_to_reg", "pop_to_addr"}

jump_callback(s, f) ==
    LET free_popped(s1) == free_reg(s1, s1.ret.reg)
    IN IF f = "pop_to_reg" THEN free_popped(pop_to_reg(s, NoReg))
       ELSE IF f = "pop_to_addr" THEN pop_to_addr(s)
       ELSE s

\* an unconditional_jump that checks the stack pointer after the callback
unconditional_jump_asserts_late(s, base_offset, target_offset, f) ==
    LET balance(s1) ==
            IF s1.err # "ok" THEN s1
            ELSE IF ~(s1.sp >= base_offset)
            THEN Panic(s1, "assertion failed: sp_offset >= base_offset")
            ELSE [masm_ensure_sp_for_jump(s1, target_offset)
                     EXCEPT !.is_target = TRUE, !.reachable = FALSE]
    IN IF s.err # "ok" THEN s ELSE balance(jump_callback(s, f))

\* an unconditional_jump that leaves the reachability flag as it is
unconditional_jump_stays_reachable(s, base_offset, target_offset, f) ==
    LET balance(s1) ==
            IF s1.err # "ok" THEN s1
            ELSE [masm_ensure_sp_for_jump(s1, target_offset) EXCEPT !.is_target = TRUE]
    IN IF s.err # "ok" THEN s
       ELSE IF ~(s.sp >= base_offset)
       THEN Panic(s, "assertion failed: sp_offset >= base_offset")
       ELSE balance(jump_callback(s, f))

\* an unconditional_jump that truncates the value stack to its memory entries
\* below the target offset
unconditional_jump_truncates(s, base_offset, target_offset, f) ==
    LET keep(s2) ==
            Cardinality({i \in 1..Len(s2.stack) :
                             s2.stack[i].k = "mem" /\ s2.stack[i].offset <= target_offset})
        balance(s1) ==
            IF s1.err # "ok" THEN s1
            ELSE [truncate_stack_to(masm_ensure_sp_for_jump(s1, target_offset), keep(s1))
                     EXCEPT !.is_target = TRUE, !.reachable = FALSE]
    IN IF s.err # "ok" THEN s
       ELSE IF ~(s.sp >= base_offset)
       THEN Panic(s, "assertion failed: sp_offset >= base_offset")
       ELSE balance(jump_callback(s, f))

unconditional_jump(s, base_offset, target_offset, f) ==
    LET \* s1 is the context after f(masm, self, dest)
        balance(s1) ==
            IF s1.err # "ok" THEN s1
            ELSE [masm_ensure_sp_for_jump(s1, target_offset)
                     EXCEPT !.is_target = TRUE, !.reachable = FALSE]
    IN IF s.err # "ok" THEN s
       ELSE IF ~(s.sp >= base_offset)
       THEN Panic(s, "assertion failed: sp_offset >= base_offset")
       ELSE balance(jump_callback(s, f))

(***************************************************************************)
(* CodeGenContext::push_abi_results.  An operand is a register operand or  *)
(* a stack operand; the callback calculate_ret_area                        *)
(*   "none"     returns None,                                              *)
(*   "reserve"  reserves the results' stack space and returns              *)
(*              RetArea::SP(sp_offset),                                    *)
(*   "current"  returns RetArea::SP(sp_offset) of the current stack        *)
(*              pointer.                                                   *)
(***************************************************************************)
OpReg(r, ty) == [k |-> "reg", reg |-> r, ty |-> ty, offset |-> 0, size |-> 0]
OpStack(ty, off) == [k |-> "stack", reg |-> NoReg, ty |-> ty, offset |-> off, size |-> Bytes(ty)]

RetAreaCallbacks == {"none", "reserve", "current"}

\* ABIResults::on_stack
on_stack(results) == \E i \in 1..Len(results) : results[i].k = "stack"

RECURSIVE results_size(_)
results_size(results) ==
    IF results = <<>> THEN 0
    ELSE results[1].size + results_size(Tail(results))

\* a push of the operands that places every stack result at the return area's
\* offset itself
RECURSIVE push_operands_at_area(_, _, _, _)
push_operands_at_area(s, results, i, area) ==
    LET operand == results[i]
        push_reg(s1) == stack_push(s1, VReg(operand.ty, s1.ret.reg))
    IN IF s.err # "ok" \/ i > Len(results) THEN s
       ELSE IF operand.k = "reg"
       THEN IF ~reg_available(s, operand.reg)
            THEN Panic(s, "assertion failed: reg_available")
            ELSE push_operands_at_area(push_reg(reg(s, operand.reg)), results, i + 1, area)
       ELSE push_operands_at_area(
                stack_push(s, VMem(operand.ty, area.offset, operand.size)),
                results, i + 1, area)

\* sp_offset.as_u32() - offset: a debug build panics on overflow; a release
\* build wraps, and the wrapped u32 is kept as its representative modulo 2^32
\* nearest to zero (the difference itself).
RECURSIVE push_operands(_, _, _, _)
push_operands(s, results, i, area) ==
    LET operand == results[i]
        \* s1 is the context after self.reg(*reg, masm)
        push_reg(s1) == stack_push(s1, VReg(operand.ty, s1.ret.reg))
    IN IF s.err # "ok" \/ i > Len(results) THEN s
       ELSE IF operand.k = "reg"
       THEN IF ~reg_available(s, operand.reg)
            THEN Panic(s, "assertion failed: reg_available")
            ELSE push_operands(push_reg(reg(s, operand.reg)), results, i + 1, area)
       ELSE push_operands(
                stack_push(debug_assert(s, area.offset >= operand.offset),
                           VMem(operand.ty, area.offset - operand.offset, operand.size)),
                results, i + 1, area)

push_abi_results(s, results, f) ==
    LET \* s1 is the context after calculate_ret_area(&results, self, masm)
        push_with_area(s1) == push_operands(s1, results, 1, [offset |-> s1.sp])
    IN IF s.err # "ok" THEN s
       ELSE IF on_stack(results)
       THEN IF f = "none" THEN Panic(s, "called Option::unwrap() on a None value")
            ELSE IF f = "reserve"
            THEN push_with_area(masm_reserve_stack(s, results_size(results)))
            ELSE push_with_area(s)
       ELSE push_operands(s, results, 1, [offset |-> 0])

(***************************************************************************)
(* CodeGenContext::without.  regs is the sequence of reserved registers;   *)
(* the callback f                                                          *)
(*   "none"     does nothing,                                              *)
(*   "any_gpr"  requests a general purpose register and returns it.        *)
(***************************************************************************)
WithoutCallbacks == {"none", "any_gpr"}

RECURSIVE reserve_regs(_, _, _)
reserve_regs(s, regs, i) ==
    IF s.err # "ok" \/ i > Len(regs) THEN s
    ELSE reserve_regs(reg(s, regs[i]), regs, i + 1)

RECURSIVE free_regs(_, _, _)
free_regs(s, regs, i) ==
    IF i > Len(regs) THEN s
    ELSE free_regs(free_reg(s, regs[i]), regs, i + 1)

\* a without that gives the registers back before the callback runs
without_frees_early(s, regs, f) ==
    LET call(s1) ==
            IF s1.err # "ok" THEN s1
            ELSE IF f = "any_gpr" THEN any_gpr(free_regs(s1, regs, 1))
            ELSE [free_regs(s1, regs, 1) EXCEPT !.ret = NoTypedReg]
    IN IF s.err # "ok" THEN s ELSE call(reserve_regs(s, regs, 1))

without(s, regs, f) ==
    LET \* s2 is the context after f(self, masm)
        release(s2) ==
            IF s2.err # "ok" THEN s2 ELSE [free_regs(s2, regs, 1) EXCEPT !.ret = s2.ret]
        \* s1 is the context after the registers of regs are reserved
        call(s1) ==
            release(IF f = "any_gpr" THEN any_gpr(s1) ELSE [s1 EXCEPT !.ret = NoTypedReg])
    IN IF s.err # "ok" THEN s ELSE call(reserve_regs(s, regs, 1))


(***************************************************************************)
(* The signature registry of wasmtime (crates/wasmtime/src/signatures.rs): *)
(* SignatureRegistryInner, whose operations are operators from a registry  *)
(* record to a registry record.  A panic is recorded in the field err, a   *)
(* failed debug assertion in debug_failed, the index an operation returns  *)
(* in ret.  A shared signature index is its bits(), counted from 0.        *)
(***************************************************************************)
\* the function types: two are structurally equal when they are the same
FuncTypes == 1..NumFuncTypes
Threads == 1..NumThreads
NoThread == 0
NoIndex == 0 - 1
\* `references: usize`, its width scaled down
RefModulus == 16

\* Option<RegistryEntry>
NoEntry == [some |-> FALSE, references |-> 0, ty |-> 0]
SomeEntry(references, ty) == [some |-> TRUE, references |-> references, ty |-> ty]

\* HashMap::insert and HashMap::remove
MapInsert(map, ty, index) ==
    [t \in (DOMAIN map) \cup {ty} |-> IF t = ty THEN index ELSE map[t]]
MapRemove(map, ty) == [t \in (DOMAIN map) \ {ty} |-> map[t]]

\* SignatureRegistryInner::default()
NewRegistry ==
    [map |-> [t \in {} |-> 0],
     entries |-> <<>>,
     free |-> <<>>,
     err |-> "ok",
     debug_failed |-> FALSE,
     ret |-> NoIndex]

\* self.entries[index.bits() as usize]: the index is within the vector
InEntries(r, index) == index >= 0 /\ index < Len(r.entries)

\* SignatureRegistryInner::register
register(r, ty) ==
    LET len == Cardinality(DOMAIN r.map)
        \* self.entries[index.bits() as usize].as_mut().unwrap().references += 1
        add_reference(r1, index) ==
            IF r1.err # "ok" THEN r1
            ELSE IF ~InEntries(r1, index) THEN Panic(r1, "index out of bounds")
            ELSE IF ~r1.entries[index + 1].some
            THEN Panic(r1, "called Option::unwrap() on a None value")
            ELSE [r1 EXCEPT !.entries[index + 1].references = (@ + 1) % RefModulus,
                            !.ret = index]
        \* Entry::Vacant: entry is self.entries[pos - 1]
        insert(r1, index, pos) ==
            IF r1.err # "ok" THEN r1
            ELSE IF ~(pos >= 1 /\ pos <= Len(r1.entries)) THEN Panic(r1, "index out of bounds")
            ELSE IF r1.entries[pos].some THEN Panic(r1, "assertion failed: entry.is_none()")
            ELSE add_reference([r1 EXCEPT !.entries[pos] = SomeEntry(0, ty),
                                          !.map = MapInsert(@, ty, index)], index)
    IN IF r.err # "ok" THEN r
       ELSE IF ty \in DOMAIN r.map THEN add_reference(r, r.map[ty])
       ELSE IF r.free # <<>>
       THEN insert([r EXCEPT !.free = Front(@)], Top(r.free), Top(r.free) + 1)
       ELSE insert([debug_assert(r, len = Len(r.entries))
                       EXCEPT !.entries = Append(@, NoEntry)],
                   len, Len(r.entries) + 1)

\* an unregister_entry that frees the entry whatever its count is
unregister_entry_always_removes(r, index, count) ==
    LET entry == r.entries[index + 1]
    IN IF r.err # "ok" THEN r
       ELSE IF ~InEntries(r, index) THEN Panic(r, "index out of bounds")
       ELSE IF ~entry.some THEN Panic(r, "called Option::unwrap() on a None value")
       ELSE [r EXCEPT !.map = MapRemove(@, entry.ty),
                      !.free = Append(@, index),
                      !.entries[index + 1] = NoEntry,
                      !.ret = NoIndex]

\* SignatureRegistryInner::unregister_entry
unregister_entry(r, index, count) ==
    LET entry == r.entries[index + 1]
        \* r1 is the registry after entry.references -= count
        remove(r1) ==
            IF r1.entries[index + 1].references = 0
            THEN [r1 EXCEPT !.map = MapRemove(@, entry.ty),
                            !.free = Append(@, index),
                            !.entries[index + 1] = NoEntry]
            ELSE r1
    IN IF r.err # "ok" THEN r
       ELSE IF ~InEntries(r, index) THEN Panic(r, "index out of bounds")
       ELSE IF ~entry.some THEN Panic(r, "called Option::unwrap() on a None value")
       ELSE remove([debug_assert(r, entry.references >= count)
                       EXCEPT !.entries[index + 1].references =
                                  (@ + RefModulus - count) % RefModulus,
                              !.ret = NoIndex])

\* the indices handed out and not yet given back: index -> how many times
HandleCount(h, index) == IF index \in DOMAIN h THEN h[index] ELSE 0
AddHandle(h, index) ==
    [i \in (DOMAIN h) \cup {index} |-> HandleCount(h, i) + (IF i = index THEN 1 ELSE 0)]
RemoveHandle(h, index) ==
    [i \in {j \in DOMAIN h : j # index \/ h[j] > 1} |-> h[i] - (IF i = index THEN 1 ELSE 0)]
RECURSIVE SumOver(_, _)
SumOver(h, S) ==
    IF S = {} THEN 0
    ELSE LET i == CHOOSE x \in S : TRUE IN h[i] + SumOver(h, S \ {i})
Registrations(h) == SumOver(h, DOMAIN h)

\* SignatureRegistry::new, nobody holding its lock
RegistryInit ==
    /\ registry = NewRegistry
    /\ lock = NoThread
    /\ handles = [i \in {} |-> 0]

(***************************************************************************)
(* The initial state: CodeGenContext::new with a fresh allocator, an empty *)
(* value stack and a macro assembler that has emitted nothing.             *)
(***************************************************************************)
NewContext(locals) ==
    [stack |-> <<>>,
     free |-> Regs,
     sp |-> 0,
     reachable |-> TRUE,
     is_target |-> FALSE,
     err |-> "ok",
     ret |-> NoTypedReg,
     nspill |-> 0,
     debug_failed |-> FALSE,
     calls |-> <<>>,
     rv |-> [r \in AllRegs |-> 0],
     pm |-> [o \in {} |-> 0],
     locals_mem |-> locals,
     addr_mem |-> 0]

Locals == 0..(NumLocals - 1)

Init ==
    /\ ctx = NewContext([i \in Locals |-> 0])
    /\ held = {}
    /\ RegistryInit

(***************************************************************************)
(* The callers of the context: the inputs they pass.                       *)
(***************************************************************************)
Consts == {0}
\* the types the callers' emit callbacks give their results
ResultTypes(size) == IF size = "S32" THEN {"I32"} ELSE {"F64"}
DstTypes == {"I32", "F64"}
PushTypes(class) == IF class = "Int" THEN {"I32"} ELSE {"F64"}
JumpOffsets == {0, 4}
AbiResults ==
    {<<OpReg(1, "I32")>>,
     <<OpReg(NumIntRegs + 1, "F64")>>,
     <<OpStack("I32", 0)>>,
     <<OpStack("F64", 4), OpStack("I32", 0)>>,
     <<OpStack("I32", 0), OpReg(1, "I32")>>}
WithoutRegs == {<<1>>, <<1, 2>>}

\* The fields ret (the value an operation returns), nspill (the entries its
\* spills moved to memory), debug_failed and calls describe one call: they are reset
\* between calls.
Unit(t) ==
    [t EXCEPT !.ret = NoTypedReg, !.nspill = 0, !.debug_failed = FALSE, !.calls = <<>>]

Bounded(t) == Len(t.stack) <= MaxStack /\ t.sp <= MaxSP

\* no call follows a panic, and the callers emit nothing while the code is
\* unreachable
Running == ctx.err = "ok" /\ ctx.reachable

\* the register an operation returned passes to the caller
Returned(t) == IF t.err = "ok" /\ t.ret.reg \in Regs THEN {t.ret.reg} ELSE {}

\* A panic aborts the compilation of the function: the context and what its
\* caller held are dropped, and only the panic is left.
Aborted(t, msg) == [NewContext(t.locals_mem) EXCEPT !.err = msg]

\* One call of an operation: t is the context after it, h what the caller
\* holds after it.  Where a debug assertion failed on the way, the debug
\* build has panicked instead.
Call(t, h) ==
    /\ Running
    /\ Bounded(t)
    /\ \/ /\ ctx' = IF t.err = "ok" THEN Unit(t) ELSE Aborted(t, t.err)
          /\ held' = IF t.err = "ok" THEN h ELSE {}
       \/ /\ t.debug_failed
          /\ ctx' = Aborted(t, "debug assertion failed")
          /\ held' = {}
    /\ UNCHANGED sigvars

(***************************************************************************)
(* The actions: one per operation of the context.                          *)
(***************************************************************************)
\* a constant of a type is within the type's width
PushConst(consts) ==
    \E ty \in IntTypes : \E c \in consts \cap (0..(Modulus(Bytes(ty)) - 1)) :
        Call(stack_push(ctx, VImm(ty, c)), held)

PushLocal(indices) ==
    \E i \in indices :
        Call(stack_push(ctx, VLocal(i, LocalType(i))), held)

PushReg ==
    \E r \in held : \E ty \in PushTypes(ClassOfReg(r)) :
        Call(stack_push(ctx, VReg(ty, r)), held \ {r})

FreeReg ==
    \E r \in held :
        Call(free_reg(ctx, r), held \ {r})

PopToReg ==
    \E named \in {NoReg} \cup Regs :
        LET t == pop_to_reg(ctx, named)
        IN Call(t, held \cup Returned(t))

PopToAddr ==
    Call(pop_to_addr(ctx), held)

RegNamed ==
    \E named \in Regs :
        LET t == reg(ctx, named)
        IN Call(t, held \cup Returned(t))

RegForClass ==
    \E class \in Classes :
        LET t == reg_for_class(ctx, class)
        IN Call(t, held \cup Returned(t))

Unop ==
    \E size \in {"S32"} : \E rty \in ResultTypes(size) :
        Call(unop(ctx, size, rty), held)

Binop ==
    \E size \in Sizes : \E rty \in ResultTypes(size) :
        Call(binop(ctx, size, rty), held)

FloatCmpOp ==
    \E size \in {"S32"} :
        Call(float_cmp_op(ctx, size), held)

I32Binop ==
    Call(i32_binop(ctx), held)

I64Binop ==
    Call(i64_binop(ctx), held)

ConvertOp ==
    \E dst_ty \in DstTypes :
        Call(convert_op(ctx, dst_ty), held)

ConvertOpWithTmpReg ==
    \E dst_ty \in DstTypes, class \in {"Int"} :
        Call(convert_op_with_tmp_reg(ctx, dst_ty, class), held)

DropLast ==
    \E n \in 0..(MaxStack + 1) :
        Call(drop_last(ctx, n, TRUE), held)

TruncateStackTo ==
    \E target \in 0..MaxStack :
        /\ ctx.err = "ok"
        /\ ctx' = Unit(truncate_stack_to(ctx, target))
        /\ held' = held
        /\ UNCHANGED sigvars

Spill ==
    Call(spill(ctx), held)

UnconditionalJump ==
    \E base \in JumpOffsets, target \in JumpOffsets, f \in JumpCallbacks :
        /\ base <= target
        /\ Call(unconditional_jump(ctx, base, target, f), held)

\* the callback "current" stands for a return area that is already on the
\* machine stack
PushAbiResults(abi_results) ==
    \E results \in abi_results, f \in RetAreaCallbacks :
        /\ f = "current" => ctx.sp >= results_size(results)
        /\ Call(push_abi_results(ctx, results, f), held)

Without ==
    \E regs \in WithoutRegs, f \in WithoutCallbacks :
        LET t == without(ctx, regs, f)
        IN Call(t, held \cup Returned(t))

Next ==
    \/ PushConst(Consts)
    \/ PushLocal(Locals)
    \/ PushReg
    \/ FreeReg
    \/ PopToReg
    \/ PopToAddr
    \/ RegNamed
    \/ RegForClass
    \/ Unop
    \/ Binop
    \/ FloatCmpOp
    \/ I32Binop
    \/ I64Binop
    \/ ConvertOp
    \/ ConvertOpWithTmpReg
    \/ DropLast
    \/ TruncateStackTo
    \/ Spill
    \/ UnconditionalJump
    \/ PushAbiResults(AbiResults)
    \/ Without

Spec == Init /\ [][Next]_vars

(***************************************************************************)
(* The context computing with values: the locals hold any value, the       *)
(* constants are all the constants of their width, and the operations are  *)
(* those that move and combine values.                                     *)
(***************************************************************************)
WideConsts == 0..(Modulus(8) - 1)
LocalValues == 0..(ValueModulus - 1)
\* one result, returned on the stack
StackResults == {<<OpStack("I32", 0)>>}

InitVal ==
    /\ ctx \in {NewContext(l) : l \in [Locals -> LocalValues]}
    /\ held = {}
    /\ RegistryInit

NextVal ==
    \/ PushConst(WideConsts)
    \/ PushLocal(Locals)
    \/ I32Binop
    \/ I64Binop
    \/ Spill
    \/ PushAbiResults(StackResults)

SpecVal == InitVal /\ [][NextVal]_vars


(***************************************************************************)
(* What the claims speak of.                                               *)
(***************************************************************************)
RegEntries(s) == {i \in 1..Len(s.stack) : s.stack[i].k = "reg"}
MemEntries(s) == {i \in 1..Len(s.stack) : s.stack[i].k = "mem"}
LocalEntries(s) == {i \in 1..Len(s.stack) : s.stack[i].k = "local"}
StackRegs(s) == {s.stack[i].reg : i \in RegEntries(s)}
Busy(s) == Regs \ s.free
Exclusive(s) ==
    \A i, j \in RegEntries(s) : i # j => s.stack[i].reg # s.stack[j].reg
StackRegsBusy(s) == StackRegs(s) \cap s.free = {}

\* C1: register exclusivity.  In every state reached from the empty stack with
\* all registers free by the operations of the context, no two entries of the
\* value stack are register entries with the same register.
C1_RegisterExclusivity == Exclusive(ctx)

\* two register entries, and an entry that a spill has moved to memory
C1_Witness ==
    /\ ctx.err = "ok"
    /\ Cardinality(RegEntries(ctx)) >= 2
    /\ MemEntries(ctx) # {}

\* C2: in every state between operations, the register of every register entry
\* of the value stack is busy in the register allocator: no register is free
\* and referenced by a stack entry.
C2_StackRegsBusy == StackRegsBusy(ctx)

\* a binop is about to free its source register and to push its destination
\* register while another register entry stays below
C2_Witness ==
    /\ ctx.err = "ok"
    /\ Len(ctx.stack) = 3
    /\ ctx.stack[1].k = "reg"
    /\ ctx.stack[3].k = "reg"
    /\ LET t == binop(ctx, "S32", "I32")
       IN /\ t.err = "ok"
          /\ Len(t.stack) = 2
          /\ Top(t.stack).k = "reg"
          /\ ctx.stack[3].reg \in t.free
          /\ StackRegsBusy(t)

\* the sizes of the memory entries 1..i of the value stack
RECURSIVE MemSizeUpTo(_, _)
MemSizeUpTo(s, i) ==
    IF i = 0 THEN 0
    ELSE (IF s.stack[i].k = "mem" THEN s.stack[i].size ELSE 0) + MemSizeUpTo(s, i - 1)

\* every memory entry lies where the memory entries below it end, and the
\* memory entries fill the machine stack up to the stack pointer
Consistent(s) ==
    /\ \A i \in MemEntries(s) : s.stack[i].offset = MemSizeUpTo(s, i)
    /\ MemSizeUpTo(s, Len(s.stack)) = s.sp

\* the sizes of the register and local entries 1..i: what a spill pushes for them
RECURSIVE SpilledSizeUpTo(_, _)
SpilledSizeUpTo(s, i) ==
    IF i = 0 THEN 0
    ELSE (IF s.stack[i].k \in {"reg", "local"} THEN Bytes(s.stack[i].ty) ELSE 0)
         + SpilledSizeUpTo(s, i - 1)

\* t is s after a spill: the register and local entries of s are memory entries
\* laid out bottom to top from the stack pointer of s, the other entries are
\* unchanged, and the stack pointer has grown by what was pushed
SpillLayout(s, t) ==
    /\ Len(t.stack) = Len(s.stack)
    /\ \A i \in 1..Len(s.stack) :
           IF s.stack[i].k \in {"reg", "local"}
           THEN t.stack[i] = VMem(s.stack[i].ty, s.sp + SpilledSizeUpTo(s, i),
                                  Bytes(s.stack[i].ty))
           ELSE t.stack[i] = s.stack[i]
    /\ t.sp = s.sp + SpilledSizeUpTo(s, Len(s.stack))
    /\ \A i \in 1..Len(s.stack) :
           s.stack[i].k \in {"reg", "local"} =>
               t.stack[i].offset <= t.sp /\ t.stack[i].offset - t.stack[i].size >= s.sp

SameOrSpilled(v, w) ==
    \/ w = v
    \/ v.k \in {"reg", "local"} /\ w.k = "mem" /\ w.ty = v.ty /\ w.size = Bytes(v.ty)

\* t is s after a pop_to_reg(named) that has returned
PopToRegPost(s, t, named) ==
    /\ Len(t.stack) = Len(s.stack) - 1
    /\ \A i \in 1..Len(t.stack) : SameOrSpilled(s.stack[i], t.stack[i])
    /\ t.ret.reg \in Regs
    /\ ~reg_available(t, t.ret.reg)
    /\ named # NoReg => t.ret.reg = named
    /\ t.ret.reg \notin StackRegs(t)
    /\ (Top(s.stack).k = "reg" /\ Top(s.stack).reg # t.ret.reg) =>
           reg_available(t, Top(s.stack).reg)

\* C4: a pop_to_reg on a non-empty stack that returns has removed exactly the
\* top entry (the entries below are the same entries, in the same order, each as
\* it was or spilled), and the typed register it returns is busy, is the named
\* register when one was named, and is the register of no entry left on the
\* stack; when the popped entry was a register entry of another register, that
\* register is free afterwards.
C4_PopToReg ==
    \A named \in {NoReg} \cup Regs :
        LET t == pop_to_reg(ctx, named)
        IN (ctx.err = "ok" /\ Len(ctx.stack) > 0 /\ t.err = "ok") =>
               PopToRegPost(ctx, t, named)

\* the top is a register entry, and the named register is another one, held by
\* the entry below: the pop spills that entry and moves the value
C4_Witness ==
    /\ ctx.err = "ok"
    /\ Len(ctx.stack) >= 2
    /\ Top(ctx.stack).k = "reg"
    /\ ctx.stack[1].k = "reg"
    /\ LET t == pop_to_reg(ctx, ctx.stack[1].reg)
       IN /\ t.err = "ok"
          /\ t.nspill >= 1
          /\ t.ret.reg = ctx.stack[1].reg
          /\ Top(ctx.stack).reg \in t.free
          /\ PopToRegPost(ctx, t, ctx.stack[1].reg)

\* t is s after an allocation that has spilled and returned a register of regs
AllocatedAfterSpill(s, t, regs) ==
    /\ t.err = "ok"
    /\ t.nspill = Cardinality(RegEntries(s) \cup LocalEntries(s))
    /\ RegEntries(t) = {} /\ LocalEntries(t) = {}
    /\ SpillLayout(s, t)
    /\ t.ret.reg \in regs
    /\ ~reg_available(t, t.ret.reg)
    /\ t.ret.reg \notin StackRegs(t)

\* C5: reg_for_class called when no register of the class is free, and reg
\* called when the named register is not free: if a stack entry holds such a
\* register, the whole stack is spilled inside the call and the call returns a
\* register of the class (the named register), busy and the register of no
\* stack entry; if no stack entry holds one, the call panics.
C5_AllocationWithSpill ==
    /\ \A class \in Classes :
           LET t == reg_for_class(ctx, class)
           IN (ctx.err = "ok" /\ ctx.free \cap RegsOf(class) = {}) =>
                  IF StackRegs(ctx) \cap RegsOf(class) # {}
                  THEN AllocatedAfterSpill(ctx, t, RegsOf(class))
                  ELSE t.err # "ok"
    /\ \A named \in Regs :
           LET t == reg(ctx, named)
           IN (ctx.err = "ok" /\ ~reg_available(ctx, named)) =>
                  IF named \in StackRegs(ctx)
                  THEN AllocatedAfterSpill(ctx, t, {named})
                  ELSE t.err # "ok"

\* every integer register is busy, one held by a stack entry and one off the
\* stack: an integer register is requested and the spill frees one
C5_Witness ==
    /\ ctx.err = "ok"
    /\ ctx.free \cap IntRegs = {}
    /\ StackRegs(ctx) \cap IntRegs # {}
    /\ held \cap IntRegs # {}
    /\ AllocatedAfterSpill(ctx, reg_for_class(ctx, "Int"), IntRegs)

\* C6 as stated: when every integer register is held by a register entry of the
\* stack and one more integer register is requested, exactly one register
\* entry becomes a memory entry, at the current stack pointer offset, every
\* other entry stays as it is, and the request succeeds.
C6_ExactlyOneSpilled ==
    LET t == reg_for_class(ctx, "Int")
    IN (ctx.err = "ok" /\ IntRegs \subseteq StackRegs(ctx)) =>
           /\ t.err = "ok"
           /\ \E i \in RegEntries(ctx) :
                  /\ t.stack[i] = VMem(ctx.stack[i].ty, ctx.sp + Bytes(ctx.stack[i].ty),
                                       Bytes(ctx.stack[i].ty))
                  /\ \A j \in (1..Len(ctx.stack)) \ {i} : t.stack[j] = ctx.stack[j]

\* C6 as amended: when every integer register is held by a register entry of
\* the stack and one more integer register is requested, every register entry
\* and every local entry of the stack (of either register class) becomes a
\* memory entry, laid out bottom to top from the current stack pointer offset,
\* every register the stack held is free but the one returned, and the request
\* succeeds with the lowest integer register.
C6_AllSpilled ==
    LET t == reg_for_class(ctx, "Int")
    IN (ctx.err = "ok" /\ IntRegs \subseteq StackRegs(ctx)) =>
           /\ t.err = "ok"
           /\ \A i \in RegEntries(ctx) \cup LocalEntries(ctx) : t.stack[i].k = "mem"
           /\ SpillLayout(ctx, t)
           /\ t.nspill = Cardinality(RegEntries(ctx) \cup LocalEntries(ctx))
           /\ t.free = (ctx.free \cup StackRegs(ctx)) \ {t.ret.reg}
           /\ t.ret.reg = MinOf(IntRegs)

\* every integer register is held by a register entry, and a third entry is a
\* local or a float register: the request moves all three to memory
C6_Witness ==
    /\ ctx.err = "ok"
    /\ IntRegs \subseteq StackRegs(ctx)
    /\ Cardinality(RegEntries(ctx) \cup LocalEntries(ctx)) >= 3
    /\ LET t == reg_for_class(ctx, "Int")
       IN t.err = "ok" /\ t.nspill >= 3 /\ RegEntries(t) = {} /\ t.ret.reg \in IntRegs

\* the stack pointer offsets a control frame records
FrameOffsets == {4 * k : k \in 0..MaxWords}

\* C7 as stated: an unconditional_jump called with the stack pointer offset at
\* or above the base offset leaves the stack pointer offset at the target
\* offset, whatever the offsets and the callback, and the context unreachable.
C7_OffsetIsTarget ==
    \A base \in FrameOffsets, target \in FrameOffsets, f \in JumpCallbacks :
        LET t == unconditional_jump(ctx, base, target, f)
        IN (ctx.err = "ok" /\ ctx.sp >= base /\ t.err = "ok") =>
               t.sp = target /\ ~t.reachable

\* C7 as amended: an unconditional_jump called with the stack pointer offset at
\* or above the base offset, whose callback returns, lowers the stack pointer
\* offset to the target offset when the offset the callback left is above it,
\* and leaves it as the callback left it otherwise (it never raises it); the
\* frame is marked as a target and the context is unreachable afterwards.
\* Called with the stack pointer offset below the base offset, it panics on
\* the assertion before the callback has run: nothing else has changed.
C7_JumpBalancing ==
    \A base \in FrameOffsets, target \in FrameOffsets, f \in JumpCallbacks :
        LET t == unconditional_jump(ctx, base, target, f)
            c == jump_callback(ctx, f)
        IN ctx.err = "ok" =>
               IF ctx.sp < base
               THEN t = [ctx EXCEPT !.err = "assertion failed: sp_offset >= base_offset"]
               ELSE t.err = "ok" =>
                        /\ t.sp = (IF c.sp > target THEN target ELSE c.sp)
                        /\ t.sp <= target
                        /\ t.is_target
                        /\ ~t.reachable
                        /\ t.stack = c.stack /\ t.free = c.free

\* a jump whose callback pops a memory entry into the return area, from a stack
\* pointer offset above the target; and the same jump to a frame with a higher
\* base offset fails
C7_Witness ==
    /\ ctx.err = "ok" /\ ctx.reachable
    /\ ctx.sp = 8
    /\ Len(ctx.stack) > 0 /\ Top(ctx.stack).k = "mem" /\ Top(ctx.stack).offset = 8
    /\ LET t == unconditional_jump(ctx, 0, 0, "pop_to_addr")
       IN t.err = "ok" /\ t.sp = 0 /\ ~t.reachable
    /\ LET t == unconditional_jump(ctx, 4, 4, "pop_to_addr")
       IN t.err = "ok" /\ t.sp < 8 /\ t.sp <= 4 /\ ~t.reachable
    /\ unconditional_jump(ctx, 12, 12, "pop_to_addr").err # "ok"

\* C9: a spill of a stack with no register entry and no local entry changes
\* nothing (the stack, the allocator, the stack pointer offset and the machine
\* stack are as before); hence a spill that follows a spill changes nothing.
C9_SpillNoOp ==
    LET t == spill(ctx)
    IN ctx.err = "ok" =>
           /\ (RegEntries(ctx) \cup LocalEntries(ctx) = {}) => t = ctx
           /\ t.err = "ok" =>
                  /\ RegEntries(t) \cup LocalEntries(t) = {}
                  /\ spill(Unit(t)) = Unit(t)

\* a stack of constants and memory entries above a machine stack in use
C9_Witness ==
    /\ ctx.err = "ok" /\ ctx.reachable
    /\ ctx.sp > 0
    /\ MemEntries(ctx) # {}
    /\ \E i \in 1..Len(ctx.stack) : ctx.stack[i].k = "imm"
    /\ RegEntries(ctx) \cup LocalEntries(ctx) = {}
    /\ spill(ctx) = ctx

\* the values a caller can push here: a constant, a local, a register it holds
Pushable ==
    {VImm(ty, c) : ty \in IntTypes, c \in Consts}
        \cup {VLocal(i, LocalType(i)) : i \in Locals}
        \cup UNION {{VReg(ty, r) : ty \in PushTypes(ClassOfReg(r))} : r \in held}

\* C10 as stated: a push followed by a pop_to_reg that returns gives a typed
\* register of the pushed value's type; for a pushed register r it is r, with
\* the allocator as before, when no register or r was named, and it is the
\* named register d, with r free, otherwise; and the stack is the stack before
\* the push.
C10_StackAsBefore ==
    \A v \in Pushable, named \in {NoReg} \cup Regs :
        LET t == pop_to_reg(stack_push(ctx, v), named)
        IN (ctx.err = "ok" /\ t.err = "ok") =>
               /\ t.ret.ty = v.ty
               /\ (v.k = "reg" /\ named \in {NoReg, v.reg}) =>
                      t.ret.reg = v.reg /\ t.free = ctx.free
               /\ (v.k = "reg" /\ named \notin {NoReg, v.reg}) =>
                      t.ret.reg = named /\ reg_available(t, v.reg)
               /\ t.stack = ctx.stack

\* C10 as amended: the same, but the stack after the pop is the stack before
\* the push with every entry as it was or moved to memory by the spill the
\* pop's own allocation ran: it is the stack before the push when that
\* allocation did not spill, and the spilled stack when it did.
C10_PopPushInverse ==
    \A v \in Pushable, named \in {NoReg} \cup Regs :
        LET t == pop_to_reg(stack_push(ctx, v), named)
        IN (ctx.err = "ok" /\ t.err = "ok") =>
               /\ t.ret.ty = v.ty
               /\ (v.k = "reg" /\ named \in {NoReg, v.reg}) =>
                      t.ret.reg = v.reg /\ t.free = ctx.free /\ t.stack = ctx.stack
               /\ (v.k = "reg" /\ named \notin {NoReg, v.reg}) =>
                      t.ret.reg = named /\ reg_available(t, v.reg)
               /\ Len(t.stack) = Len(ctx.stack)
               /\ IF t.nspill = 0 THEN t.stack = ctx.stack
                  ELSE t.stack = spill(ctx).stack

\* the caller holds r and the entry below holds d: r is pushed and popped into
\* d, which spills the entry below
C10_Witness ==
    /\ ctx.err = "ok" /\ ctx.reachable
    /\ Len(ctx.stack) > 0 /\ Top(ctx.stack).k = "reg"
    /\ \E r \in held :
           LET d == Top(ctx.stack).reg
               t == pop_to_reg(stack_push(ctx, VReg("I32", r)), d)
           IN /\ r \in IntRegs /\ d \in IntRegs
              /\ t.err = "ok" /\ t.ret = TypedReg("I32", d)
              /\ r \in t.free
              /\ t.nspill > 0
              /\ Top(t.stack).k = "mem"

\* the operation on the integers of a type: the immediate path and the generic
\* path, which pops the constant into a register like any other operand
ImmediatePath(s, ty) == IF ty = "I32" THEN i32_binop(s) ELSE i64_binop(s)
GenericPath(s, ty) == IF ty = "I32" THEN binop(s, "S32", "I32") ELSE binop(s, "S64", "I64")

\* the value of the result an operation has pushed
ResultValue(t) == t.rv[Top(t.stack).reg]

ResultRegs(results) ==
    {results[i].reg : i \in {j \in 1..Len(results) : results[j].k = "reg"}}

\* the entry push_abi_results pushes for an operand, the return area being at
\* stack pointer offset area
ResultEntry(operand, area) ==
    IF operand.k = "reg" THEN VReg(operand.ty, operand.reg)
    ELSE VMem(operand.ty, area - operand.offset, operand.size)

\* the stack pointer offset of the return area the callback f supplies
RetAreaOffset(s, results, f) ==
    IF f = "reserve" THEN s.sp + results_size(results) ELSE s.sp

\* C11: push_abi_results with a callback that supplies no return area panics
\* when a result is assigned to the stack; otherwise it panics when the register
\* of a register result is not free before the call; otherwise it pushes one
\* entry per result on top of the stack, in the order of the operands: for a
\* register result a register entry of the result's type and register, busy
\* afterwards, and for a stack result a memory entry of the result's type and
\* size at the return area's offset minus the operand's offset.
C11_PushAbiResults ==
    \A results \in AbiResults, f \in RetAreaCallbacks :
        LET t == push_abi_results(ctx, results, f)
            n == Len(ctx.stack)
        IN (ctx.err = "ok" /\ (f = "current" => ctx.sp >= results_size(results))) =>
               IF on_stack(results) /\ f = "none" THEN t.err # "ok"
               ELSE IF ~(ResultRegs(results) \subseteq ctx.free)
               THEN t.err = "assertion failed: reg_available"
               ELSE /\ t.err = "ok"
                    /\ Len(t.stack) = n + Len(results)
                    /\ SubSeq(t.stack, 1, n) = ctx.stack
                    /\ \A i \in 1..Len(results) :
                           t.stack[n + i] =
                               ResultEntry(results[i], RetAreaOffset(ctx, results, f))
                    /\ t.free = ctx.free \ ResultRegs(results)

\* a stack result at a non-zero offset and a register result have been pushed
\* by one call each, over a reserved return area
C11_Witness ==
    /\ ctx.err = "ok"
    /\ Len(ctx.stack) = 1
    /\ ctx.sp = 0
    /\ 1 \in ctx.free
    /\ LET t == push_abi_results(ctx, <<OpStack("F64", 4), OpStack("I32", 0)>>, "reserve")
           u == push_abi_results(ctx, <<OpStack("I32", 0), OpReg(1, "I32")>>, "reserve")
       IN /\ t.err = "ok"
          /\ t.stack = ctx.stack \o <<VMem("F64", 8, 8), VMem("I32", 12, 4)>>
          /\ u.err = "ok"
          /\ u.stack = ctx.stack \o <<VMem("I32", 4, 4), VReg("I32", 1)>>
          /\ 1 \notin u.free
          /\ push_abi_results(ctx, <<OpStack("I32", 0)>>, "none").err # "ok"

\* the registers of the register entries above the lowest target entries
RegsAbove(s, target) == {s.stack[i].reg : i \in {j \in RegEntries(s) : j > target}}

\* C12: truncate_stack_to(target) on a stack longer than target leaves exactly
\* the lowest target entries, frees the register of every discarded register
\* entry and no other register, so that no register of a surviving entry is
\* free; on a stack of at most target entries it changes nothing.  The stack
\* pointer offset, and everything else of the context, is as before.
C12_TruncateStackTo ==
    \A target \in 0..MaxStack :
        LET t == truncate_stack_to(ctx, target)
        IN ctx.err = "ok" =>
               IF Len(ctx.stack) > target
               THEN /\ [t EXCEPT !.calls = ctx.calls] =
                           [ctx EXCEPT !.stack = SubSeq(ctx.stack, 1, target),
                                       !.free = ctx.free \cup RegsAbove(ctx, target)]
                    /\ Len(t.stack) = target
                    /\ StackRegs(t) \cap t.free = {}
                    /\ t.sp = ctx.sp
               ELSE t = ctx

\* two register entries and a memory entry above them: truncating to one entry
\* frees the register of the second and keeps the register of the first busy
C12_Witness ==
    /\ ctx.err = "ok"
    /\ Len(ctx.stack) = 3
    /\ ctx.stack[1].k = "reg" /\ ctx.stack[2].k = "reg" /\ ctx.stack[3].k = "mem"
    /\ ctx.sp > 0
    /\ LET t == truncate_stack_to(ctx, 1)
       IN /\ t.stack = <<ctx.stack[1]>>
          /\ ctx.stack[2].reg \in t.free
          /\ ctx.stack[1].reg \notin t.free
          /\ t.sp = ctx.sp
    /\ truncate_stack_to(ctx, 3) = ctx

\* the top n entries of the stack of s, the top first
TopDown(s, n) == [i \in 1..n |-> s.stack[Len(s.stack) + 1 - i]]

\* C13: drop_last(n, f) with 0 < n <= the length of the stack calls f once
\* with each of the top n entries, the top first, and leaves the entries below
\* them as they were; with the callback that frees registers the registers that
\* become free are exactly those of the dropped register entries, and with a
\* callback that does nothing the allocator is unchanged.  drop_last(0, f)
\* changes nothing and calls f never; with n above the length of the stack the
\* assertion fails before any call of f.
C13_DropLast ==
    \A n \in 0..(MaxStack + 1), freeing \in BOOLEAN :
        LET t == drop_last(ctx, n, freeing)
            len == Len(ctx.stack)
        IN ctx.err = "ok" =>
               IF n = 0 THEN t = ctx
               ELSE IF n > len
               THEN t.err = "assertion failed: last <= len" /\ t.calls = ctx.calls
               ELSE /\ t.err = "ok"
                    /\ t.calls = ctx.calls \o TopDown(ctx, n)
                    /\ t.stack = SubSeq(ctx.stack, 1, len - n)
                    /\ RegsAbove(ctx, len - n) \cap ctx.free = {}
                    /\ t.free = IF freeing THEN ctx.free \cup RegsAbove(ctx, len - n)
                                ELSE ctx.free
                    /\ t.sp = ctx.sp

\* the top two of three entries are register entries of two registers: dropping
\* them calls the callback with the top and then with the one below it, frees
\* the two registers and keeps the lowest entry
C13_Witness ==
    /\ ctx.err = "ok"
    /\ Len(ctx.stack) = 3
    /\ ctx.stack[2].k = "reg" /\ ctx.stack[3].k = "reg"
    /\ ctx.stack[2] # ctx.stack[3]
    /\ ctx.calls = <<>>
    /\ LET t == drop_last(ctx, 2, TRUE)
       IN /\ t.calls = <<ctx.stack[3], ctx.stack[2]>>
          /\ t.stack = <<ctx.stack[1]>>
          /\ t.free = ctx.free \cup {ctx.stack[2].reg, ctx.stack[3].reg}
          /\ Cardinality(t.free) = Cardinality(ctx.free) + 2

(***************************************************************************)
(* The context storing values: the locals hold any value, and constants,   *)
(* locals and spilled entries are popped to an address.                    *)
(***************************************************************************)
NextAddr ==
    \/ PushConst(WideConsts)
    \/ PushLocal(Locals)
    \/ Spill
    \/ PopToAddr

SpecAddr == InitVal /\ [][NextAddr]_vars

\* C14: pop_to_addr with a local of the frame at the top of the stack loads the
\* local's value into the scratch register and stores it at the address; the
\* locals' storage, the allocator, the stack pointer offset and the machine
\* stack are as before, and the stack has lost exactly its top entry.
C14_PopLocalToAddr ==
    LET t == pop_to_addr(ctx)
        local == Top(ctx.stack)
    IN (ctx.err = "ok" /\ Len(ctx.stack) > 0 /\ local.k = "local"
            /\ HasLocal(local.index)) =>
           /\ t.err = "ok"
           /\ t.rv[ScratchInt] = ctx.locals_mem[local.index]
           /\ t.addr_mem = ctx.locals_mem[local.index]
           /\ t.locals_mem = ctx.locals_mem
           /\ t.free = ctx.free
           /\ t.sp = ctx.sp
           /\ t.pm = ctx.pm
           /\ t.stack = Front(ctx.stack)

\* a local holding 1 is on top of another entry, and neither the address nor
\* the scratch register holds 1: the pop stores 1 at the address
C14_Witness ==
    /\ ctx.err = "ok"
    /\ Len(ctx.stack) >= 2
    /\ Top(ctx.stack).k = "local"
    /\ ctx.locals_mem[Top(ctx.stack).index] = 1
    /\ ctx.addr_mem # 1
    /\ ctx.rv[ScratchInt] # 1
    /\ LET t == pop_to_addr(ctx)
       IN /\ t.err = "ok"
          /\ t.addr_mem = 1
          /\ t.locals_mem = ctx.locals_mem
          /\ t.stack = Front(ctx.stack)

(***************************************************************************)
(* The context called whatever its reachability flag is: nothing in the    *)
(* context keeps a caller from calling an operation after an unconditional *)
(* jump.                                                                   *)
(***************************************************************************)
\* one call of an operation, in reachable or unreachable code
Emit(t, h) ==
    /\ ctx.err = "ok"
    /\ Bounded(t)
    /\ \/ /\ ctx' = IF t.err = "ok" THEN Unit(t) ELSE Aborted(t, t.err)
          /\ held' = IF t.err = "ok" THEN h ELSE {}
       \/ /\ t.debug_failed
          /\ ctx' = Aborted(t, "debug assertion failed")
          /\ held' = {}
    /\ UNCHANGED sigvars

AnyPushConst ==
    \E ty \in IntTypes : \E c \in Consts :
        Emit(stack_push(ctx, VImm(ty, c)), held)

AnyPushLocal ==
    \E i \in Locals :
        Emit(stack_push(ctx, VLocal(i, LocalType(i))), held)

AnyPushReg ==
    \E r \in held : \E ty \in PushTypes(ClassOfReg(r)) :
        Emit(stack_push(ctx, VReg(ty, r)), held \ {r})

AnyPopToReg ==
    \E named \in {NoReg} \cup Regs :
        LET t == pop_to_reg(ctx, named)
        IN Emit(t, held \cup Returned(t))

AnyPopToAddr ==
    Emit(pop_to_addr(ctx), held)

AnyI32Binop ==
    Emit(i32_binop(ctx), held)

AnyConvertOp ==
    \E dst_ty \in DstTypes :
        Emit(convert_op(ctx, dst_ty), held)

AnyDropLast ==
    \E n \in 0..(MaxStack + 1) :
        Emit(drop_last(ctx, n, TRUE), held)

AnySpill ==
    Emit(spill(ctx), held)

AnyUnconditionalJump ==
    \E base \in JumpOffsets, target \in JumpOffsets, f \in JumpCallbacks :
        /\ base <= target
        /\ Emit(unconditional_jump(ctx, base, target, f), held)

AnyPushAbiResults ==
    \E results \in StackResults, f \in RetAreaCallbacks :
        /\ f = "current" => ctx.sp >= results_size(results)
        /\ Emit(push_abi_results(ctx, results, f), held)

NextReach ==
    \/ AnyPushConst
    \/ AnyPushLocal
    \/ AnyPushReg
    \/ AnyPopToReg
    \/ AnyPopToAddr
    \/ AnyI32Binop
    \/ AnyConvertOp
    \/ AnyDropLast
    \/ TruncateStackTo
    \/ AnySpill
    \/ AnyUnconditionalJump
    \/ AnyPushAbiResults

SpecReach == Init /\ [][NextReach]_vars

\* the contexts the operations other than unconditional_jump make of s
OtherOps(s) ==
    {stack_push(s, VImm(ty, c)) : ty \in IntTypes, c \in Consts}
        \cup {stack_push(s, VLocal(i, LocalType(i))) : i \in Locals}
        \cup {stack_push(s, VReg(ty, r)) : ty \in Types, r \in Regs}
        \cup {free_reg(s, r) : r \in Regs}
        \cup {pop_to_reg(s, named) : named \in {NoReg} \cup Regs}
        \cup {pop_to_addr(s), i32_binop(s), i64_binop(s), spill(s), any_gpr(s)}
        \cup {reg(s, named) : named \in Regs}
        \cup {reg_for_class(s, class) : class \in Classes}
        \cup {reg_for_type(s, ty) : ty \in Types}
        \cup {unop(s, size, rty) : size \in Sizes, rty \in Types}
        \cup {binop(s, size, rty) : size \in Sizes, rty \in Types}
        \cup {float_cmp_op(s, size) : size \in Sizes}
        \cup {convert_op(s, dst_ty) : dst_ty \in DstTypes}
        \cup {convert_op_with_tmp_reg(s, dst_ty, class) :
                  dst_ty \in DstTypes, class \in Classes}
        \cup {drop_last(s, n, freeing) : n \in 0..(MaxStack + 1), freeing \in BOOLEAN}
        \cup {truncate_stack_to(s, target) : target \in 0..MaxStack}
        \cup {push_abi_results(s, results, f) :
                  results \in AbiResults, f \in RetAreaCallbacks}
        \cup {without(s, regs, f) : regs \in WithoutRegs, f \in WithoutCallbacks}

\* the contexts unconditional_jump makes of s
Jumps(s) ==
    {unconditional_jump(s, base, target, f) :
         base \in JumpOffsets, target \in JumpOffsets, f \in JumpCallbacks}

\* C15: the reachability flag is true in a new context; an unconditional_jump
\* that returns leaves it false; every other operation that returns leaves it
\* as it was; so a step of the context changes the flag only from true to
\* false, by an unconditional_jump, and once the flag is false it is false
\* after every further operation.
C15_ReachabilityLifecycle ==
    /\ ctx.reachable
    /\ [](ctx.err = "ok" =>
            /\ \A t \in Jumps(ctx) : t.err = "ok" => ~t.reachable
            /\ \A t \in OtherOps(ctx) : t.err = "ok" => t.reachable = ctx.reachable)
    /\ [][ctx'.err = "ok" =>
            /\ ~ctx.reachable => ~ctx'.reachable
            /\ ctx'.reachable # ctx.reachable =>
                   \E t \in Jumps(ctx) : t.err = "ok" /\ ctx' = Unit(t)]_vars

\* after an unconditional jump the stack still holds a register entry over
\* another entry: a pop, a spill and a second jump return with the flag false
C15_Witness ==
    /\ ctx.err = "ok"
    /\ ~ctx.reachable
    /\ ctx.is_target
    /\ Len(ctx.stack) >= 2
    /\ Top(ctx.stack).k = "reg"
    /\ LET t == pop_to_reg(ctx, NoReg)
           u == spill(ctx)
           v == unconditional_jump(ctx, 0, 4, "pop_to_addr")
       IN /\ t.err = "ok" /\ ~t.reachable
          /\ u.err = "ok" /\ ~u.reachable /\ u.nspill >= 1
          /\ v.err = "ok" /\ ~v.reachable

(***************************************************************************)
(* The context of a miscompiled function: the value stack may hold a local *)
(* the frame does not have (index NumLocals), and the operations that pop  *)
(* are called on any stack.                                                *)
(***************************************************************************)
LocalIndices == 0..NumLocals

NextDefect ==
    \/ PushConst(Consts)
    \/ PushLocal(LocalIndices)
    \/ PushReg
    \/ PopToReg
    \/ PopToAddr
    \/ Unop
    \/ Binop
    \/ I32Binop
    \/ I64Binop
    \/ Spill

SpecDefect == Init /\ [][NextDefect]_vars

\* the operation has panicked
Fatal(t) == t.err # "ok"

\* the local entries of s that the frame has no slot for
InvalidLocals(s) == {i \in LocalEntries(s) : ~HasLocal(s.stack[i].index)}

\* C16: on an empty stack pop_to_reg, pop_to_addr, unop, binop, i32_binop and
\* i64_binop panic on the missing value; on a stack of one entry binop,
\* i32_binop and i64_binop panic; with a local at the top of the stack that the
\* frame does not have, pop_to_reg, unop and binop (which move it to a
\* register) and pop_to_addr (which stores it) panic; and with such a local
\* anywhere on the stack a spill panics.
C16_DefectsAreFatal ==
    ctx.err = "ok" =>
        /\ Len(ctx.stack) = 0 =>
               /\ \A named \in {NoReg} \cup Regs :
                      pop_to_reg(ctx, named).err = "a value at stack top"
               /\ pop_to_addr(ctx).err = "a value at stack top"
               /\ \A size \in Sizes, rty \in Types :
                      /\ unop(ctx, size, rty).err = "a value at stack top"
                      /\ binop(ctx, size, rty).err = "a value at stack top"
               /\ i32_binop(ctx).err = "value at stack top"
               /\ i64_binop(ctx).err = "value at stack top"
        /\ Len(ctx.stack) = 1 =>
               /\ \A size \in Sizes, rty \in Types : Fatal(binop(ctx, size, rty))
               /\ Fatal(i32_binop(ctx))
               /\ Fatal(i64_binop(ctx))
        /\ Len(ctx.stack) \in InvalidLocals(ctx) =>
               /\ \A named \in {NoReg} \cup Regs : Fatal(pop_to_reg(ctx, named))
               /\ pop_to_addr(ctx).err = "invalid local at index"
               /\ \A size \in Sizes, rty \in Types :
                      Fatal(unop(ctx, size, rty)) /\ Fatal(binop(ctx, size, rty))
               /\ Fatal(i32_binop(ctx))
               /\ Fatal(i64_binop(ctx))
        /\ InvalidLocals(ctx) # {} => spill(ctx).err = "valid local at slot"

\* the only entry of the stack is a local the frame does not have, and a
\* register is free for it: moving it to a register, storing it and spilling it
\* panic on the local, and the binary operations panic one operand short
C16_Witness ==
    /\ ctx.err = "ok"
    /\ Len(ctx.stack) = 1
    /\ InvalidLocals(ctx) = {1}
    /\ ctx.free \cap RegsOf(ClassOfType(ctx.stack[1].ty)) # {}
    /\ held # {}
    /\ pop_to_reg(ctx, NoReg).err = "invalid local at index"
    /\ pop_to_addr(ctx).err = "invalid local at index"
    /\ spill(ctx).err = "valid local at slot"
    /\ Fatal(binop(ctx, "S32", "I32"))
    /\ i32_binop(stack_push(ctx, VImm("I32", 0))).err = "invalid local at index"
    /\ pop_to_reg(stack_pop(ctx), NoReg).err = "a value at stack top"

\* C17: i32_binop (i64_binop) with an i32 (i64) constant at the top of the
\* stack and an entry below it, when it returns, has replaced the two operands
\* by one register entry of the integer type, the entries below being as they
\* were or spilled, and has taken no register for the constant: at most one
\* more register is busy than before; when the entry below the constant was a
\* register entry, no register was allocated and nothing was spilled, the busy
\* registers are the same and the result is in that entry's register; otherwise
\* the one register allocated is the result's.
C17_ConstantBinop ==
    \A ty \in IntTypes :
        LET t == ImmediatePath(ctx, ty)
            n == Len(ctx.stack)
            lower == ctx.stack[n - 1]
        IN (ctx.err = "ok" /\ n >= 2 /\ stack_top_is_const(ctx, ty) /\ t.err = "ok") =>
               /\ Len(t.stack) = n - 1
               /\ Top(t.stack).k = "reg" /\ Top(t.stack).ty = ty
               /\ \A i \in 1..(n - 2) : SameOrSpilled(ctx.stack[i], t.stack[i])
               /\ Cardinality(Busy(t)) <= Cardinality(Busy(ctx)) + 1
               /\ IF lower.k = "reg"
                  THEN /\ Busy(t) = Busy(ctx)
                       /\ t.nspill = 0
                       /\ Top(t.stack).reg = lower.reg
                  ELSE Busy(t) = (IF t.nspill > 0 THEN Busy(ctx) \ StackRegs(ctx)
                                  ELSE Busy(ctx)) \cup {Top(t.stack).reg}

\* two i32 constants on an empty stack with every register free: the result is
\* the only entry and its register, the destination, the only busy register
C17_Witness ==
    /\ ctx.err = "ok"
    /\ Len(ctx.stack) = 2
    /\ ctx.stack[1].k = "imm" /\ ctx.stack[1].ty = "I32"
    /\ stack_top_is_const(ctx, "I32")
    /\ Busy(ctx) = {}
    /\ LET t == i32_binop(ctx)
       IN /\ t.err = "ok"
          /\ Len(t.stack) = 1
          /\ t.stack[1].k = "reg" /\ t.stack[1].ty = "I32"
          /\ Busy(t) = {t.stack[1].reg}
          /\ Cardinality(Busy(t)) = 1

\* C18: a spill of a stack whose locals are locals of the frame returns with a
\* stack of the same length whose entries have the types they had; every
\* register entry and every local entry has become a memory entry, every
\* constant and every memory entry is the entry it was; the registers the stack
\* entries held are free, and the busy registers that no stack entry held, those
\* the callers hold among them, are busy as before.
C18_SpillPerEntry ==
    LET t == spill(ctx)
    IN ctx.err = "ok" =>
           /\ t.err = "ok"
           /\ Len(t.stack) = Len(ctx.stack)
           /\ \A i \in 1..Len(ctx.stack) :
                  /\ t.stack[i].ty = ctx.stack[i].ty
                  /\ ctx.stack[i].k \in {"reg", "local"} =>
                         t.stack[i].k = "mem" /\ t.stack[i].size = Bytes(ctx.stack[i].ty)
                  /\ ctx.stack[i].k \in {"imm", "mem"} => t.stack[i] = ctx.stack[i]
           /\ StackRegs(ctx) \subseteq t.free
           /\ Busy(t) = Busy(ctx) \ StackRegs(ctx)
           /\ held \cap t.free = {}

\* a register entry, a constant and a local are on the stack and the caller
\* holds a register: the spill moves the first and the third to memory, frees
\* the register of the first and leaves the caller's register busy
C18_Witness ==
    /\ ctx.err = "ok"
    /\ Len(ctx.stack) = 3
    /\ ctx.stack[1].k = "reg" /\ ctx.stack[2].k = "imm" /\ ctx.stack[3].k = "local"
    /\ held # {}
    /\ LET t == spill(ctx)
       IN /\ t.err = "ok"
          /\ t.stack[1].k = "mem" /\ t.stack[3].k = "mem"
          /\ t.stack[2] = ctx.stack[2]
          /\ ctx.stack[1].reg \in t.free
          /\ held \cap t.free = {}
          /\ t.nspill = 2

\* the entries of s a spill converts, and the value each holds
Converted(s) == RegEntries(s) \cup LocalEntries(s)
EntryValue(s, i) ==
    IF s.stack[i].k = "reg" THEN s.rv[s.stack[i].reg] % Modulus(Bytes(s.stack[i].ty))
    ELSE s.locals_mem[s.stack[i].index] % Modulus(Bytes(s.stack[i].ty))
MaxOf(S) == CHOOSE x \in S : \A y \in S : y <= x

\* C19: a spill pushes the entries it converts in the order of the stack,
\* bottom to top: among the entries one spill converts, a higher entry's slot
\* lies wholly above a lower entry's, so the recorded offsets strictly
\* increase from the bottom to the top, all above the stack pointer offset the
\* spill found; each slot holds its entry's value when the spill ends; and the
\* topmost converted entry's offset is the stack pointer offset at the end.
C19_SpillOrder ==
    LET t == spill(ctx)
    IN ctx.err = "ok" =>
           /\ t.err = "ok"
           /\ \A i \in Converted(ctx) :
                  /\ t.stack[i].k = "mem"
                  /\ t.stack[i].offset - t.stack[i].size >= ctx.sp
                  /\ ReadStack(t, t.stack[i].offset) = EntryValue(ctx, i)
           /\ \A i, j \in Converted(ctx) :
                  i < j => /\ t.stack[i].offset < t.stack[j].offset
                           /\ t.stack[i].offset <= t.stack[j].offset - t.stack[j].size
           /\ Converted(ctx) # {} => t.stack[MaxOf(Converted(ctx))].offset = t.sp
           /\ Converted(ctx) = {} => t.sp = ctx.sp

\* a register entry holding a non-zero value lies below a local holding
\* another value: the spill pushes the register first and the local above it
C19_Witness ==
    /\ ctx.err = "ok"
    /\ Len(ctx.stack) >= 2
    /\ ctx.stack[1].k = "reg" /\ Top(ctx.stack).k = "local"
    /\ EntryValue(ctx, 1) # 0
    /\ EntryValue(ctx, Len(ctx.stack)) # EntryValue(ctx, 1)
    /\ LET t == spill(ctx)
       IN /\ t.err = "ok"
          /\ t.stack[1].offset < Top(t.stack).offset
          /\ Top(t.stack).offset = t.sp
          /\ ReadStack(t, t.stack[1].offset) = EntryValue(ctx, 1)
          /\ ReadStack(t, t.sp) = EntryValue(ctx, Len(ctx.stack))

\* C20 as stated: in every state the operations of the context reach, a
\* pop_to_reg that takes the slow path on a memory entry and is given a
\* register pops the entry from the top of the machine stack: the entry's
\* recorded offset is the stack pointer offset at the pop (the offset after
\* the pop plus the entry's size), and the assertion at the pop holds.
C20_OffsetIsSpAtPop ==
    \A named \in {NoReg} \cup Regs :
        LET t == pop_to_reg(ctx, named)
            mem == Top(ctx.stack)
        IN (ctx.err = "ok" /\ Len(ctx.stack) > 0 /\ mem.k = "mem" /\ t.err = "ok") =>
               /\ mem.offset = t.sp + Bytes(mem.ty)
               /\ ~t.debug_failed

\* a register entry lies below the memory entry push_abi_results has pushed at
\* the stack pointer offset, and the register named for the pop is that
\* entry's: the allocation spills the register entry above the memory entry's
\* slot, and the pop takes the spilled slot
C20_Witness ==
    /\ ctx.err = "ok"
    /\ Len(ctx.stack) = 2
    /\ ctx.stack[1].k = "reg"
    /\ ctx.stack[2].k = "mem"
    /\ ctx.stack[2].offset = ctx.sp
    /\ LET t == pop_to_reg(ctx, ctx.stack[1].reg)
       IN /\ t.err = "ok"
          /\ t.debug_failed
          /\ t.nspill = 1
          /\ t.stack[1].k = "mem"
          /\ t.stack[1].offset > t.sp
          /\ t.sp = ctx.sp

\* C21: an unconditional_jump that returns leaves the value stack and the
\* allocator as its callback left them: with a callback that pops nothing they
\* are the stack and the allocator before the call, and with a callback that
\* pops the top entry the stack is one entry shorter, the entries below being
\* as they were or spilled by the callback's pop; this also when the stack
\* pointer offset is lowered to the target offset.
C21_JumpKeepsStack ==
    \A base \in JumpOffsets, target \in JumpOffsets, f \in JumpCallbacks :
        LET t == unconditional_jump(ctx, base, target, f)
            c == jump_callback(ctx, f)
            n == Len(ctx.stack)
        IN (ctx.err = "ok" /\ t.err = "ok") =>
               /\ t.stack = c.stack
               /\ t.free = c.free
               /\ t.calls = <<>>
               /\ IF f = "none"
                  THEN t.stack = ctx.stack /\ t.free = ctx.free
                  ELSE /\ Len(t.stack) = n - 1
                       /\ \A i \in 1..(n - 1) : SameOrSpilled(ctx.stack[i], t.stack[i])

\* a register entry lies over a memory entry and the stack pointer offset is
\* above the target offset 0: the jump lowers the stack pointer offset and
\* leaves both entries and the allocator
C21_Witness ==
    /\ ctx.err = "ok"
    /\ Len(ctx.stack) >= 2
    /\ ctx.stack[1].k = "mem"
    /\ Top(ctx.stack).k = "reg"
    /\ ctx.sp > 0
    /\ LET t == unconditional_jump(ctx, 0, 0, "none")
       IN /\ t.err = "ok"
          /\ t.sp = 0
          /\ ~t.reachable
          /\ t.stack = ctx.stack
          /\ t.free = ctx.free

\* C22: a convert_op_with_tmp_reg that returns has called its emit callback
\* once, with a destination register of the destination type's class, the
\* source register and the temporary register of the class asked for, the three
\* pairwise distinct and busy at the call; afterwards the source and the
\* temporary register are free, the destination register is busy, the top of
\* the stack is the register entry of the destination type and register, and
\* the stack is as long as before.
C22_ConversionRegisters ==
    \A dst_ty \in DstTypes, class \in Classes :
        LET t == convert_op_with_tmp_reg(ctx, dst_ty, class)
            tmp == reg_for_class(ctx, class).ret.reg
            e == t.calls[1]
        IN (ctx.err = "ok" /\ t.err = "ok") =>
               /\ Len(t.calls) = 1
               /\ tmp \in RegsOf(class)
               /\ e.dst \in RegsOf(ClassOfType(dst_ty))
               /\ e.src \in Regs
               /\ Cardinality({e.dst, e.src, tmp}) = 3
               /\ {e.dst, e.src, tmp} \cap e.free = {}
               /\ {e.src, tmp} \subseteq t.free
               /\ e.dst \notin t.free
               /\ Len(t.stack) = Len(ctx.stack)
               /\ Top(t.stack) = VReg(dst_ty, e.dst)

\* the top of the stack is an integer register entry and one float register
\* and one more integer register are free: the conversion to F64 with an
\* integer temporary register holds three registers at the emit callback and
\* leaves the float register on the stack
C22_Witness ==
    /\ ctx.err = "ok"
    /\ Len(ctx.stack) >= 1
    /\ Top(ctx.stack).k = "reg" /\ Top(ctx.stack).ty = "I32"
    /\ LET t == convert_op_with_tmp_reg(ctx, "F64", "Int")
       IN /\ t.err = "ok"
          /\ t.nspill = 0
          /\ Len(t.calls) = 1
          /\ t.calls[1].src = Top(ctx.stack).reg
          /\ Cardinality(Regs \ t.calls[1].free) = Cardinality(Busy(ctx)) + 2
          /\ Top(t.stack) = VReg("F64", t.calls[1].dst)
          /\ Top(ctx.stack).reg \in t.free
          /\ Len(t.stack) = Len(ctx.stack)

\* the registers of a sequence of registers
RegSet(regs) == {regs[i] : i \in 1..Len(regs)}

\* C23: a without(regs, f) that returns has made every register of regs busy
\* before f starts, none of them the register of a stack entry: where a stack
\* entry held one, the stack has been spilled; the register an allocation
\* request inside f returns, with or without a spill, is busy and is none of
\* regs; after the call every register of regs is free, and the stack holds
\* the entries it held, as they were or spilled.
C23_Without ==
    \A regs \in WithoutRegs, f \in WithoutCallbacks :
        LET t == without(ctx, regs, f)
            r == reserve_regs(ctx, regs, 1)
        IN (ctx.err = "ok" /\ t.err = "ok") =>
               /\ r.err = "ok"
               /\ RegSet(regs) \cap r.free = {}
               /\ RegSet(regs) \cap StackRegs(r) = {}
               /\ RegSet(regs) \cap StackRegs(ctx) # {} =>
                      r.nspill > 0 /\ RegEntries(r) = {}
               /\ f = "any_gpr" =>
                      /\ t.ret.reg \in IntRegs \ RegSet(regs)
                      /\ t.ret.reg \notin t.free
               /\ f = "none" => t.ret = NoTypedReg /\ t.free = r.free \cup RegSet(regs)
               /\ RegSet(regs) \subseteq t.free
               /\ Len(t.stack) = Len(ctx.stack)
               /\ \A i \in 1..Len(ctx.stack) : SameOrSpilled(ctx.stack[i], t.stack[i])

\* both integer registers are held by stack entries: without(<<1>>, any_gpr)
\* spills the stack to take register 1, the request inside takes register 2,
\* and register 1 is free afterwards
C23_Witness ==
    /\ ctx.err = "ok"
    /\ IntRegs \subseteq StackRegs(ctx)
    /\ LET t == without(ctx, <<1>>, "any_gpr")
       IN /\ t.err = "ok"
          /\ t.nspill >= 2
          /\ t.ret.reg = 2
          /\ 1 \in t.free
          /\ 2 \notin t.free
          /\ RegEntries(t) = {}

(***************************************************************************)
(* The context driven by its composite operations only: constants and      *)
(* locals are pushed, and every register is taken and given back inside an *)
(* operation; the callback of without returns nothing.                     *)
(***************************************************************************)
WithoutNoResult ==
    \E regs \in WithoutRegs :
        Call(without(ctx, regs, "none"), held)

NextComposite ==
    \/ PushConst(Consts)
    \/ PushLocal(Locals)
    \/ Unop
    \/ Binop
    \/ FloatCmpOp
    \/ I32Binop
    \/ I64Binop
    \/ ConvertOp
    \/ ConvertOpWithTmpReg
    \/ PopToAddr
    \/ Spill
    \/ PushAbiResults(AbiResults)
    \/ TruncateStackTo
    \/ WithoutNoResult

SpecComposite == Init /\ [][NextComposite]_vars

\* C24: from the empty stack with every register free, after any sequence of
\* composite operations that have returned, the busy registers are exactly the
\* registers of the register entries of the stack, and the callers hold none.
C24_NoRegisterLeak ==
    ctx.err = "ok" => Busy(ctx) = StackRegs(ctx) /\ held = {}

\* after a spill, an integer and a float register entry lie over a memory
\* entry, and these two registers are the busy ones
C24_Witness ==
    /\ ctx.err = "ok"
    /\ Len(ctx.stack) = 3
    /\ ctx.stack[1].k = "mem" /\ ctx.sp > 0
    /\ ctx.stack[2].k = "reg" /\ ctx.stack[3].k = "reg"
    /\ ClassOfReg(ctx.stack[2].reg) # ClassOfReg(ctx.stack[3].reg)
    /\ Busy(ctx) = {ctx.stack[2].reg, ctx.stack[3].reg}

(***************************************************************************)
(* The signature registry under concurrent threads.  SignatureRegistry     *)
(* wraps the inner registry in an RwLock: register and unregister take the *)
(* write lock, run the inner operation and release the lock.  A thread     *)
(* unregisters only an index that was registered and not yet unregistered  *)
(* (the contract of the unsafe fn unregister).  A panic under the lock     *)
(* poisons it: no later write() succeeds.                                  *)
(***************************************************************************)
\* self.0.write().unwrap(): thread t gets the write lock
WriteLock(t) ==
    /\ registry.err = "ok" /\ ~registry.debug_failed
    /\ lock = NoThread
    /\ lock' = t
    /\ UNCHANGED <<ctx, held, registry, handles>>

\* the registry as the next holder of the lock finds it
Released(r) == [r EXCEPT !.ret = NoIndex]

\* SignatureRegistry::register, by the thread that holds the write lock
Register(t) ==
    /\ lock = t
    /\ Registrations(handles) < MaxRegistrations
    /\ \E ty \in FuncTypes :
        LET r == register(registry, ty)
        IN /\ registry' = Released(r)
           /\ handles' = IF r.err = "ok" THEN AddHandle(handles, r.ret) ELSE handles
    /\ lock' = NoThread
    /\ UNCHANGED <<ctx, held>>

\* SignatureRegistry::unregister, by the thread that holds the write lock
Unregister(t) ==
    /\ lock = t
    /\ \E index \in DOMAIN handles :
        /\ registry' = Released(unregister_entry(registry, index, 1))
        /\ handles' = RemoveHandle(handles, index)
    /\ lock' = NoThread
    /\ UNCHANGED <<ctx, held>>

NextSig ==
    \E t \in Threads :
        \/ WriteLock(t)
        \/ Register(t)
        \/ Unregister(t)

SpecSig == Init /\ [][NextSig]_vars

\* the indices on the free list
FreeIndices(r) == {r.free[k] : k \in DOMAIN r.free}
\* the indices of the entries vector
EntryIndices(r) == 0..(Len(r.entries) - 1)

\* the registry r, whose outstanding registrations are h, is consistent
RegistryConsistent(r, h) ==
    /\ r.err = "ok" /\ ~r.debug_failed
    \* each registered type maps to one index, whose entry holds the type
    /\ \A ty \in DOMAIN r.map :
        /\ InEntries(r, r.map[ty])
        /\ r.entries[r.map[ty] + 1].some
        /\ r.entries[r.map[ty] + 1].ty = ty
        /\ r.entries[r.map[ty] + 1].references >= 1
    \* two distinct registered types never share an index
    /\ \A ty1, ty2 \in DOMAIN r.map : r.map[ty1] = r.map[ty2] => ty1 = ty2
    \* an index is on the free list exactly when its entry is empty
    /\ FreeIndices(r) \subseteq EntryIndices(r)
    /\ \A j, k \in DOMAIN r.free : r.free[j] = r.free[k] => j = k
    /\ \A i \in EntryIndices(r) : i \in FreeIndices(r) <=> ~r.entries[i + 1].some
    \* an entry is empty exactly when its count is zero: the count of an
    \* entry is the number of registrations not yet unregistered
    /\ \A i \in EntryIndices(r) :
        /\ r.entries[i + 1].some <=> HandleCount(h, i) > 0
        /\ r.entries[i + 1].some =>
            /\ r.entries[i + 1].references = HandleCount(h, i)
            /\ r.entries[i + 1].ty \in DOMAIN r.map
            /\ r.map[r.entries[i + 1].ty] = i
    /\ DOMAIN h \subseteq EntryIndices(r)
    \* the assertions of Drop for SignatureRegistryInner
    /\ h = [i \in {} |-> 0] => (DOMAIN r.map = {} /\ Len(r.free) = Len(r.entries))

\* register of a type that is registered: the same index, its count one more
RegisterAgain(r, ty) ==
    LET index == r.map[ty]
        t == register(r, ty)
    IN /\ t.ret = index
       /\ t = [r EXCEPT !.entries[index + 1].references = @ + 1, !.ret = index]

\* register of a type that is not registered: the index freed last when there
\* is one, a new index at the end of the entries otherwise, with count 1
RegisterNew(r, ty) ==
    LET t == register(r, ty)
        index == IF r.free # <<>> THEN Top(r.free) ELSE Len(r.entries)
    IN /\ t.err = "ok" /\ ~t.debug_failed
       /\ t.ret = index
       /\ t.free = (IF r.free # <<>> THEN Front(r.free) ELSE <<>>)
       /\ Len(t.entries) = (IF r.free # <<>> THEN Len(r.entries) ELSE Len(r.entries) + 1)
       /\ t.entries[index + 1] = SomeEntry(1, ty)
       /\ \A i \in EntryIndices(r) : i # index => t.entries[i + 1] = r.entries[i + 1]
       /\ t.map = MapInsert(r.map, ty, index)

\* unregister of an index: the count one less, and when it drops to zero the
\* entry is emptied, its type removed and the index put on the free list
UnregisterOne(r, index) ==
    LET t == unregister_entry(r, index, 1)
        entry == r.entries[index + 1]
    IN IF entry.references = 1
       THEN t = [r EXCEPT !.entries[index + 1] = NoEntry,
                          !.free = Append(@, index),
                          !.map = MapRemove(@, entry.ty),
                          !.ret = NoIndex]
       ELSE t = [r EXCEPT !.entries[index + 1].references = @ - 1, !.ret = NoIndex]

\* C25: under any interleaving of register and unregister calls of
\* concurrent threads, which the write lock serializes, the registry is
\* consistent at every reachable state: each registered function type maps
\* to exactly one index whose entry holds that type with a count of at least
\* 1, two distinct registered types never share an index, an index is on the
\* free list if and only if its entry is empty, which is exactly when its
\* count has dropped to zero; registering an equal type again returns the
\* same index and increments its count, and a freed index is reused by a
\* later registration of a new type.
C25_RegistryConsistency ==
    /\ lock \in Threads \cup {NoThread}
    /\ RegistryConsistent(registry, handles)
    /\ \A ty \in FuncTypes :
        IF ty \in DOMAIN registry.map
        THEN RegisterAgain(registry, ty)
        ELSE RegisterNew(registry, ty)
    /\ \A index \in DOMAIN handles : UnregisterOne(registry, index)

\* a thread holds the write lock of a registry in which one type has been
\* registered twice, an index has been freed, and registering a new type
\* reuses the freed index
C25_Witness ==
    /\ lock \in Threads
    /\ registry.free # <<>>
    /\ \E ty \in DOMAIN registry.map :
        registry.entries[registry.map[ty] + 1].references = 2
    /\ \E ty \in FuncTypes \ DOMAIN registry.map :
        /\ register(registry, ty).ret = Top(registry.free)
        /\ register(registry, ty).ret < Len(registry.entries)

====
